---- MODULE Spec2Model ----
(***************************************************************************)
(* A model of the excel-reader image resolution pipeline:                  *)
(*   ExcelImageReader.parseBuffer / parseFile                              *)
(*     -> extractImagesFromBuffer -> parseCellImages                       *)
(*     -> FloatingImageManager.parseFloatingImages                         *)
(*     -> parseWorksheet for every sheet of the workbook.                  *)
(* One reader instance is modelled.  A parse call advances from one await  *)
(* point of the source to the next; the reader's fields survive the call.  *)
(***************************************************************************)
EXTENDS Integers, Sequences, FiniteSets, TLC

\* Largest 0-based row / column index a package of the model refers to.
MaxRow == 1
MaxCol == 1

Rows == 0..MaxRow
Cols == 0..MaxCol

----------------------------------------------------------------------------
(* Generic helpers                                                         *)

RECURSIVE SumSeq(_)
SumSeq(s) == IF s = <<>> THEN 0 ELSE Head(s) + SumSeq(Tail(s))

RECURSIVE FilterSeq(_, _)
\* Array.prototype.filter with the predicate given as the set of kept values
FilterSeq(s, keep) ==
  IF s = <<>> THEN <<>>
  ELSE IF Head(s) \in keep THEN <<Head(s)>> \o FilterSeq(Tail(s), keep)
       ELSE FilterSeq(Tail(s), keep)

Range(s) == {s[i] : i \in 1..Len(s)}

----------------------------------------------------------------------------
(* XLSX.utils cell references: "A1" is column letters + 1-based row        *)

ColLetters == <<"A", "B", "C", "D", "E">>

encode_cell(r, c) == [col |-> ColLetters[c + 1], row |-> r + 1]

decode_cell(ref) ==
  [r |-> ref.row - 1,
   c |-> (CHOOSE i \in 1..Len(ColLetters) : ColLetters[i] = ref.col) - 1]

NoCell == [col |-> "", row |-> 0]

----------------------------------------------------------------------------
(* JavaScript Map: insertion ordered, set() on an existing key replaces    *)
(* the value in place.  Modelled as a sequence of [k, v] entries.          *)

MapKeys(m) == {m[i].k : i \in 1..Len(m)}

MapHas(m, key) == key \in MapKeys(m)

MapGet(m, key) == m[CHOOSE i \in 1..Len(m) : m[i].k = key].v

MapSet(m, key, val) ==
  IF MapHas(m, key)
  THEN [i \in 1..Len(m) |-> IF m[i].k = key THEN [k |-> key, v |-> val] ELSE m[i]]
  ELSE Append(m, [k |-> key, v |-> val])

----------------------------------------------------------------------------
(* Paths.  A path is its '/'-separated segments plus the text after the    *)
(* last '.' of the last segment: "../media/image1.png" is                  *)
(* [segs |-> <<"..", "media", "image1">>, ext |-> "png"].  A leading '/'   *)
(* gives an empty first segment.                                           *)

Path(segs, ext) == [segs |-> segs, ext |-> ext]

RECURSIVE StripLeadingSlashes(_)
StripLeadingSlashes(segs) ==
  IF segs # <<>> /\ Head(segs) = "" THEN StripLeadingSlashes(Tail(segs)) ELSE segs

StartsWithFolder(segs, folder) == Len(segs) >= 2 /\ segs[1] = folder

\* one list of recognised folders for both calling folders
normalizeTargetPathOneList(fromFolder, target) ==
  LET segs == target.segs IN
  IF StartsWithFolder(segs, "..") THEN Path(Tail(segs), target.ext)
  ELSE IF segs # <<>> /\ segs[1] = "" /\ Len(segs) >= 2
       THEN Path(StripLeadingSlashes(segs), target.ext)
  ELSE IF ~StartsWithFolder(segs, "worksheets")
          /\ ~StartsWithFolder(segs, "drawings")
          /\ ~StartsWithFolder(segs, "media")
       THEN Path(<<fromFolder>> \o segs, target.ext)
  ELSE target

\* RelationshipParser.normalizeTargetPath
normalizeTargetPath(fromFolder, target) ==
  LET segs == target.segs IN
  IF fromFolder = "worksheets"
  THEN IF StartsWithFolder(segs, "..") THEN Path(Tail(segs), target.ext)
       ELSE IF segs # <<>> /\ segs[1] = "" /\ Len(segs) >= 2
            THEN Path(StripLeadingSlashes(segs), target.ext)
       ELSE IF ~StartsWithFolder(segs, "worksheets")
               /\ ~StartsWithFolder(segs, "drawings")
               /\ ~StartsWithFolder(segs, "media")
            THEN Path(<<"worksheets">> \o segs, target.ext)
       ELSE target
  ELSE IF StartsWithFolder(segs, "..") THEN Path(Tail(segs), target.ext)
       ELSE IF segs # <<>> /\ segs[1] = "" /\ Len(segs) >= 2
            THEN Path(StripLeadingSlashes(segs), target.ext)
       ELSE IF ~StartsWithFolder(segs, "drawings")
               /\ ~StartsWithFolder(segs, "media")
            THEN Path(<<"drawings">> \o segs, target.ext)
       ELSE target

----------------------------------------------------------------------------
(* Relationship files                                                      *)

\* RelationshipParser.parseRelationships: a Map id -> record, last wins;
\* elements lacking Id, Type or Target are dropped.
parseRelationships(relsXml) ==
  LET ok == {i \in 1..Len(relsXml) :
               relsXml[i].Id # "" /\ relsXml[i].Type # "" /\ relsXml[i].Target.segs # <<>>}
      ids == {relsXml[i].Id : i \in ok}
      last(id) == CHOOSE i \in ok :
                    relsXml[i].Id = id /\ \A j \in ok : relsXml[j].Id = id => j <= i
  IN [id \in ids |->
        [id |-> id, type |-> relsXml[last(id)].Type,
         target |-> relsXml[last(id)].Target,
         targetMode |-> relsXml[last(id)].TargetMode]]

\* RelationshipParser.findDrawingRelationship: first record of a drawing type
\* (the file's records in document order), or none.
findDrawingRelationship(relsXml) ==
  LET rels == parseRelationships(relsXml)
      hits == {i \in 1..Len(relsXml) :
                 relsXml[i].Id \in DOMAIN rels /\ rels[relsXml[i].Id].type = "drawing"}
  IN IF hits = {} THEN <<>>
     ELSE <<rels[relsXml[CHOOSE i \in hits : \A j \in hits : i <= j].Id]>>

----------------------------------------------------------------------------
(* ImageExtractor                                                          *)

\* String.toLowerCase on the extensions that occur
ToLower(ext) ==
  CASE ext \in {"PNG", "Png"} -> "png"
    [] ext \in {"JPG", "Jpg"} -> "jpg"
    [] ext = "JPEG" -> "jpeg"
    [] ext = "GIF" -> "gif"
    [] ext = "BMP" -> "bmp"
    [] ext = "WEBP" -> "webp"
    [] ext = "TIFF" -> "tiff"
    [] OTHER -> ext

\* the extension compared as written
getMimeTypeFromPathCaseSensitive(path) ==
  CASE path.ext \in {"jpg", "jpeg"} -> "image/jpeg"
    [] path.ext = "png" -> "image/png"
    [] path.ext = "gif" -> "image/gif"
    [] path.ext = "bmp" -> "image/bmp"
    [] path.ext = "webp" -> "image/webp"
    [] OTHER -> "image/jpeg"

\* ImageExtractor.getMimeTypeFromPath
getMimeTypeFromPath(path) ==
  LET extension == ToLower(path.ext) IN
  CASE extension \in {"jpg", "jpeg"} -> "image/jpeg"
    [] extension = "png" -> "image/png"
    [] extension = "gif" -> "image/gif"
    [] extension = "bmp" -> "image/bmp"
    [] extension = "webp" -> "image/webp"
    [] OTHER -> "image/jpeg"

RECURSIVE Base64(_)
\* Buffer.toString('base64'): the sextets of the bytes; 64 stands for the '=' pad
Base64(bytes) ==
  IF bytes = <<>> THEN <<>>
  ELSE IF Len(bytes) = 1
       THEN <<bytes[1] \div 4, (bytes[1] % 4) * 16, 64, 64>>
  ELSE IF Len(bytes) = 2
       THEN <<bytes[1] \div 4, (bytes[1] % 4) * 16 + bytes[2] \div 16,
              (bytes[2] % 16) * 4, 64>>
  ELSE <<bytes[1] \div 4, (bytes[1] % 4) * 16 + bytes[2] \div 16,
         (bytes[2] % 16) * 4 + bytes[3] \div 64, bytes[3] % 64>>
       \o Base64(SubSeq(bytes, 4, Len(bytes)))

\* a data URI that encodes the first three bytes only
DataUriOfFirstBytes(mimeType, bytes) ==
  [mime |-> mimeType,
   data |-> Base64(IF Len(bytes) > 3 THEN SubSeq(bytes, 1, 3) ELSE bytes)]

\* The data URI `data:${mimeType};base64,${base64}`
DataUri(mimeType, bytes) == [mime |-> mimeType, data |-> Base64(bytes)]

\* the id taken from the extraction result, which is always ''
createCellImageIdOfResult(id, relationshipId, imageResult) ==
  [id |-> imageResult.id, base64 |-> imageResult.base64, mimeType |-> imageResult.mimeType,
   relationshipId |-> relationshipId]

\* ImageExtractor.createCellImage
createCellImage(id, relationshipId, imageResult) ==
  [id |-> id, base64 |-> imageResult.base64, mimeType |-> imageResult.mimeType,
   relationshipId |-> relationshipId]

----------------------------------------------------------------------------
(* Packages: the inputs of a parse call.                                   *)
(* A package is what the bytes hold, seen through XLSX.read (sheet names,  *)
(* !ref, cells) and through JSZip (cellimages part, relationship files,    *)
(* drawing parts, media parts).                                            *)

Ids == {"a", "b"}
SheetNames == {"Sheet1", "Sheet2"}

Rel(id, type, target, mode) ==
  [Id |-> id, Type |-> type, Target |-> target, TargetMode |-> mode]

\* xl/_rels/cellimages.xml.rels: targets are relative to xl/
CellImagesRelsXml ==
  << Rel("rId1", "image", Path(<<"media", "image1">>, "png"), ""),
     Rel("rId2", "image", Path(<<"media", "image2">>, "jpeg"), ""),
     Rel("rId3", "image", Path(<<"media", "image1">>, "png"), "External"),
     Rel("rId5", "image", Path(<<"media", "image5">>, "png"), "") >>

\* xl/drawings/_rels/drawingN.xml.rels: targets are relative to xl/drawings/
DrawingRelsXml ==
  << Rel("rId1", "image", Path(<<"..", "media", "image1">>, "png"), ""),
     Rel("rId2", "image", Path(<<"..", "media", "image2">>, "jpeg"), ""),
     Rel("rId3", "image", Path(<<"..", "media", "image1">>, "png"), "External"),
     Rel("rId5", "image", Path(<<"..", "media", "image5">>, "png"), "") >>

\* The drawing part of the k-th sheet is xl/drawings/drawing<k>.xml
DrawingName == <<"drawing1", "drawing2", "drawing3">>

\* xl/worksheets/_rels/sheet<k>.xml.rels of a sheet that has a drawing
SheetRelsXml(k) ==
  << Rel("rId1", "drawing", Path(<<"..", "drawings", DrawingName[k]>>, "xml"), "") >>

\* xl/worksheets/_rels/sheet<k>.xml.rels of a sheet with a hyperlink only
SheetRelsNoDrawing ==
  << Rel("rId1", "hyperlink", Path(<<"example">>, "html"), "External") >>

\* The media parts of a package: image1 and image2 hold bytes that depend on
\* the package version, image5 is stored but cannot be decompressed, anything
\* else is not in the archive.
MediaPart(ver, path) ==
  IF path = Path(<<"media", "image1">>, "png")
  THEN [state |-> "ok", bytes |-> IF ver = 1 THEN <<137, 80>> ELSE <<255>>]
  ELSE IF path = Path(<<"media", "image2">>, "jpeg")
  THEN [state |-> "ok", bytes |-> IF ver = 1 THEN <<255, 216, 255>> ELSE <<1, 2, 3, 4>>]
  ELSE IF path = Path(<<"media", "image5">>, "png")
  THEN [state |-> "corrupt", bytes |-> <<>>]
  ELSE IF path.segs \in {<<"media", "pic">>, <<"media", "pic.png">>}
  THEN [state |-> "ok", bytes |-> IF ver = 1 THEN <<71, 73>> ELSE <<137, 80>>]
  ELSE [state |-> "absent", bytes |-> <<>>]

\* SheetJS cells: v is the value, f the formula text, t the type tag.  A text
\* is kept as what the code asks of it: whether it is a string, whether it
\* includes 'DISPIMG', the first group of /DISPIMG\("([^"]+)"/ ("" when the
\* pattern does not match) and the result of String(v ?? '').
NoText == [isStr |-> FALSE, disp |-> FALSE, arg |-> "", txt |-> ""]
CellText == [v |-> [isStr |-> TRUE, disp |-> FALSE, arg |-> "", txt |-> "x"],
             f |-> NoText, t |-> "s"]
CellDispV(id) == [v |-> [isStr |-> TRUE, disp |-> TRUE, arg |-> id, txt |-> "=DISPIMG"],
                  f |-> NoText, t |-> "s"]
CellDispF(id) == [v |-> NoText,
                  f |-> [isStr |-> TRUE, disp |-> TRUE, arg |-> id, txt |-> "DISPIMG"],
                  t |-> "z"]
CellKinds == {CellText, CellDispV("a"), CellDispF("a")}

\* The declared dimension is A1:<last column>1; the first n cells of the row
\* exist and hold the same kind of cell.
RefTo(ec) == [s |-> [r |-> 0, c |-> 0], e |-> [r |-> 0, c |-> ec]]
CellsOf(kind, n) == [ref \in {encode_cell(0, c) : c \in 0..(n - 1)} |-> kind]
Layouts ==
  {[ref |-> RefTo(x[1]), cells |-> CellsOf(kind, x[2])] :
     x \in {y \in {0, MaxCol} \X (0..(MaxCol + 1)) : y[2] <= y[1] + 1},
     kind \in CellKinds}

\* An anchor of a drawing part, as parsed from the XML
Anchor(name, embed, r, c) ==
  [pic |-> TRUE, name |-> name, cNvPrId |-> "", embed |-> embed,
   from |-> TRUE, row |-> r, col |-> c]
AnchorPool ==
  { Anchor("a", "rId1", 0, 0), Anchor("a", "rId2", 0, MaxCol),
    Anchor("b", "rId1", MaxRow, 0), Anchor("b", "rId3", 0, 0),
    Anchor("a", "rId5", MaxRow, 0), Anchor("b", "rId9", 0, 0) }
AnchorLists ==
  {<<>>} \cup {<<x>> : x \in AnchorPool} \cup {<<x, y>> : x \in AnchorPool, y \in AnchorPool}

\* state: "norels" (no sheet relationship file), "nodrawingrel" (the sheet's
\* relationship file names no drawing), "nopart" (the drawing relationship
\* names a part the archive does not hold), "corrupt" (the drawing part
\* cannot be decompressed), "ok" (the drawing part holds the anchors)
Drawing(state, anchors) == [state |-> state, anchors |-> anchors]
Drawings ==
  {Drawing("norels", <<>>), Drawing("corrupt", <<>>)}
  \cup {Drawing("ok", l) : l \in AnchorLists}

\* A declaration of xl/cellimages.xml
Named(name, embed) == [pic |-> TRUE, name |-> name, embed |-> embed]
NamedPool ==
  { Named("a", "rId1"), Named("a", "rId2"), Named("a", "rId3"), Named("b", "rId5") }
NamedLists ==
  {<<>>} \cup {<<x>> : x \in NamedPool} \cup {<<x, y>> : x \in NamedPool, y \in NamedPool}

Sheet(name, defined, layout, drawing) ==
  [name |-> name, defined |-> defined, ref |-> layout.ref, cells |-> layout.cells,
   drawing |-> drawing]

\* The second sheet of a two-sheet workbook
SecondSheets ==
  { Sheet("Sheet2", TRUE, [ref |-> RefTo(0), cells |-> CellsOf(CellText, 1)],
          Drawing("ok", <<Anchor("a", "rId2", 0, 0)>>)),
    Sheet("Sheet2", TRUE, [ref |-> RefTo(0), cells |-> CellsOf(CellText, 0)],
          Drawing("norels", <<>>)) }

Package(xlsxOk, zipOk, ver, named, sheets) ==
  [xlsxOk |-> xlsxOk, zipOk |-> zipOk, ver |-> ver,
   cellImages |-> [present |-> named # <<>>, items |-> named],
   sheets |-> sheets]

\* the null archive handle
NoZip == Package(FALSE, FALSE, 0, <<>>, <<>>)

\* Readable packages whose first sheet comes with at most two image
\* declarations (named or anchored): one sheet of any layout, or two sheets
ImagePlans ==
  {x \in NamedLists \X Drawings : Len(x[1]) + Len(x[2].anchors) <= 2}
SmallPackages ==
  {Package(TRUE, TRUE, 1, x[1], <<Sheet("Sheet1", TRUE, l, x[2])>>) :
     x \in ImagePlans, l \in Layouts}
  \cup {Package(TRUE, TRUE, 1, x[1],
                 <<Sheet("Sheet1", TRUE, [ref |-> RefTo(0), cells |-> CellsOf(CellText, 1)],
                         x[2]), y>>) :
          x \in ImagePlans, y \in SecondSheets}

\* Packages that fail as a whole or in one sheet: XLSX.read raises; JSZip
\* cannot open what XLSX.read could; SheetJS could not parse the first sheet
BrokenPackages ==
  {Package(FALSE, FALSE, 1, <<>>, <<>>)}
  \cup {Package(TRUE, FALSE, 1, <<>>, <<Sheet("Sheet1", TRUE, l, Drawing("norels", <<>>))>>) :
          l \in Layouts}
  \cup {Package(TRUE, TRUE, 1, x[1],
                 <<Sheet("Sheet1", FALSE, [ref |-> RefTo(0), cells |-> CellsOf(CellText, 0)],
                         x[2]), y>>) :
          x \in {y \in ImagePlans : y[1] = <<>>}, y \in SecondSheets}

\* Two-sheet packages in which a sheet comes without a usable drawing
NoDrawingStates == {"norels", "nodrawingrel", "nopart"}
NoDrawingPackages ==
  {Package(TRUE, TRUE, 1, n,
           <<Sheet("Sheet1", TRUE, [ref |-> RefTo(0), cells |-> CellsOf(CellText, 1)], x),
             Sheet("Sheet2", TRUE, [ref |-> RefTo(0), cells |-> CellsOf(CellText, 1)], y)>>) :
     n \in {<<>>, <<Named("a", "rId2")>>},
     x \in {Drawing(st, <<>>) : st \in NoDrawingStates}
            \cup {Drawing("ok", <<Anchor("b", "rId1", 0, 0)>>)},
     y \in {Drawing(st, <<>>) : st \in NoDrawingStates}
            \cup {Drawing("ok", <<Anchor("a", "rId1", MaxRow, 0)>>)}}

\* One-sheet packages whose declared dimension is the single cell in the last
\* row and column, so that an anchor may lie above it or left of it
OffsetLayout ==
  [ref |-> [s |-> [r |-> MaxRow, c |-> MaxCol], e |-> [r |-> MaxRow, c |-> MaxCol]],
   cells |-> [ref \in {encode_cell(MaxRow, MaxCol)} |-> CellText]]
OffsetPackages ==
  {Package(TRUE, TRUE, 1, <<>>, <<Sheet("Sheet1", TRUE, OffsetLayout, Drawing("ok", l))>>) :
     l \in {<<>>, <<Anchor("a", "rId1", 0, 0)>>, <<Anchor("a", "rId2", 0, MaxCol)>>,
            <<Anchor("b", "rId1", MaxRow, 0)>>,
            <<Anchor("a", "rId2", 0, MaxCol), Anchor("b", "rId1", MaxRow, 0)>>}}

\* Packages after which the reader is used again: their media bytes differ
\* from those of the other packages, and both sheets carry bindings
ReusePackages ==
  {Package(TRUE, TRUE, 2, n,
           <<Sheet("Sheet1", TRUE, [ref |-> RefTo(0), cells |-> CellsOf(CellText, 1)],
                   Drawing("ok", <<Anchor("a", "rId1", 0, 0), Anchor("b", "rId2", MaxRow, 0)>>)),
             Sheet("Sheet2", TRUE, [ref |-> RefTo(0), cells |-> CellsOf(CellDispV("a"), 1)],
                   Drawing("ok", <<Anchor("b", "rId1", 0, MaxCol)>>))>>) :
     n \in {<<>>, <<Named("a", "rId2")>>}}

\* One-sheet packages with a cell in the first and in the last row of column
\* A, whose drawing anchors one picture in both rows, two pictures in one
\* cell, or both
TwoRowLayout(kind) ==
  [ref |-> [s |-> [r |-> 0, c |-> 0], e |-> [r |-> MaxRow, c |-> 0]],
   cells |-> [ref \in {encode_cell(0, 0), encode_cell(MaxRow, 0)} |-> kind]]
StackedPackages ==
  {Package(TRUE, TRUE, 1, n, <<Sheet("Sheet1", TRUE, TwoRowLayout(k), Drawing("ok", l))>>) :
     n \in {<<>>, <<Named("a", "rId2")>>},
     k \in {CellText, CellDispV("a")},
     l \in {<<Anchor("a", "rId1", 0, 0), Anchor("a", "rId1", MaxRow, 0)>>,
            <<Anchor("b", "rId2", 0, 0), Anchor("a", "rId1", 0, 0)>>,
            <<Anchor("a", "rId1", 0, 0), Anchor("b", "rId2", MaxRow, 0),
              Anchor("a", "rId1", MaxRow, 0)>>}}

Packages ==
  SmallPackages \cup BrokenPackages \cup ReusePackages \cup NoDrawingPackages
  \cup OffsetPackages \cup StackedPackages

Options ==
  [includeImages : BOOLEAN, includeEmptyRows : BOOLEAN, includeEmptyColumns : BOOLEAN]

----------------------------------------------------------------------------
(* Reading the archive                                                     *)

\* JSZip file(`xl/${imagePath}`) followed by async('nodebuffer')
zipMedia(z, imagePath) == MediaPart(z.ver, imagePath)

\* ImageExtractor.extractImageData: <<>> is null.  A part that cannot be
\* decompressed raises inside the try block and gives null as well.
extractImageData(z, imagePath) ==
  IF z = NoZip THEN <<>>
  ELSE LET imageFile == zipMedia(z, imagePath) IN
       IF imageFile.state # "ok" THEN <<>>
       ELSE LET mimeType == getMimeTypeFromPath(imagePath) IN
            << [id |-> "", base64 |-> DataUri(mimeType, imageFile.bytes),
                mimeType |-> mimeType, rawData |-> imageFile.bytes] >>

\* the exception extractImageData swallows
extractThrows(z, imagePath) == z # NoZip /\ zipMedia(z, imagePath).state = "corrupt"

\* ExcelImageReader.parseCellImagesXml: a declaration needs a picture, a name
\* and an embed id
parseCellImagesXml(xml) ==
  LET keep == {x \in Range(xml) : x.pic /\ x.name # "" /\ x.embed # ""}
      kept == FilterSeq(xml, keep)
  IN [n \in 1..Len(kept) |-> [id |-> kept[n].name, relationshipId |-> kept[n].embed]]

\* RelationshipParser.mapSheetNamesToPaths over xl/workbook.xml: the sheets in
\* workbook order, each with the number of its worksheet part
getSheetsMap(z) ==
  IF z = NoZip THEN <<>>
  ELSE [k \in 1..Len(z.sheets) |-> [name |-> z.sheets[k].name, file |-> k]]

----------------------------------------------------------------------------
(* DrawingParser                                                           *)

Trim(str) ==
  CASE str = " " -> ""
    [] str = " a " -> "a"
    [] OTHER -> str

FloatingId(cellRef) ==
  CASE cellRef.col = "A" -> <<"floating_A1", "floating_A2", "floating_A3">>[cellRef.row]
    [] cellRef.col = "B" -> <<"floating_B1", "floating_B2", "floating_B3">>[cellRef.row]
    [] OTHER -> <<"floating_C1", "floating_C2", "floating_C3">>[cellRef.row]

\* Number(undefined): the index of an xdr:from that lacks its row or column
NaN == -1

\* a descriptor for every picture with an embed id, anchored or not
extractImageFromAnchorUnanchored(anchor) ==
  IF ~anchor.pic THEN <<>>
  ELSE IF anchor.embed = "" THEN <<>>
  ELSE LET cellRef == encode_cell(IF anchor.from /\ anchor.row # NaN THEN anchor.row ELSE 0,
                                  IF anchor.from /\ anchor.col # NaN THEN anchor.col ELSE 0)
       IN << [id |-> Trim(anchor.embed), relationshipId |-> anchor.embed,
              cellRef |-> cellRef, rowIndex |-> cellRef.row - 1, colIndex |-> 0] >>

\* DrawingParser.extractImageFromAnchor: <<>> is null
extractImageFromAnchor(anchor) ==
  IF ~anchor.pic THEN <<>>
  ELSE IF anchor.embed = "" THEN <<>>
  ELSE IF ~anchor.from \/ anchor.row = NaN \/ anchor.col = NaN THEN <<>>
  ELSE LET cellRef == encode_cell(anchor.row, anchor.col)
           nameCandidate == Trim(anchor.name)
           idCandidate == Trim(anchor.cNvPrId)
           relCandidate == Trim(anchor.embed)
           id == IF nameCandidate # "" THEN nameCandidate
                 ELSE IF idCandidate # "" THEN idCandidate
                 ELSE IF relCandidate # "" THEN relCandidate
                 ELSE FloatingId(cellRef)
       IN << [id |-> id, relationshipId |-> anchor.embed, cellRef |-> cellRef,
              rowIndex |-> anchor.row, colIndex |-> anchor.col] >>

RECURSIVE parseDrawingXml(_)
\* DrawingParser.parseDrawingXml
parseDrawingXml(anchors) ==
  IF anchors = <<>> THEN <<>>
  ELSE extractImageFromAnchor(Head(anchors)) \o parseDrawingXml(Tail(anchors))

----------------------------------------------------------------------------
(* FloatingImageManager: one sheet's drawing                               *)

\* the first sheet's drawing part, whatever the target names
zipDrawingOfFirstSheet(z, drawingTarget) == z.sheets[1].drawing

\* the drawing part a normalized target names in archive z: "absent" when the
\* archive has no such part
zipDrawing(z, drawingTarget) ==
  LET ks == {k \in 1..Len(z.sheets) :
               drawingTarget = Path(<<"drawings", DrawingName[k]>>, "xml")
               /\ z.sheets[k].drawing.state \in {"ok", "corrupt"}}
  IN IF ks = {} THEN Drawing("absent", <<>>)
     ELSE z.sheets[CHOOSE k \in ks : TRUE].drawing

\* the drawing relationships looked up without the TargetMode test
annotateNoExternal(imageInfo, drawingRels) ==
  LET base == [id |-> imageInfo.id, relationshipId |-> imageInfo.relationshipId,
               cellRef |-> imageInfo.cellRef] IN
  IF imageInfo.relationshipId \notin DOMAIN drawingRels
  THEN [info |-> base, skip |-> "missing_relationship", mediaPath |-> <<>>]
  ELSE [info |-> base, skip |-> "",
        mediaPath |-> <<normalizeTargetPath("drawings",
                          drawingRels[imageInfo.relationshipId].target)>>]

\* FloatingImageManager.parseDrawingFile, lines 123-142: every descriptor gets
\* either a __skip reason or a mediaPath
annotate(imageInfo, drawingRels) ==
  LET base == [id |-> imageInfo.id, relationshipId |-> imageInfo.relationshipId,
               cellRef |-> imageInfo.cellRef] IN
  IF imageInfo.relationshipId \notin DOMAIN drawingRels
  THEN [info |-> base, skip |-> "missing_relationship", mediaPath |-> <<>>]
  ELSE LET rel == drawingRels[imageInfo.relationshipId] IN
       IF rel.targetMode = "External"
       THEN [info |-> base, skip |-> "external", mediaPath |-> <<>>]
       ELSE [info |-> base, skip |-> "",
             mediaPath |-> <<normalizeTargetPath("drawings", rel.target)>>]

\* FloatingImageManager.parseSheetFloatingImages up to the loop over the
\* images: the annotated descriptors of the sheet stored in part `file` of
\* archive z, and whether reading them raised.
sheetFloatingImages(z, file) ==
  LET none == [threw |-> FALSE, images |-> <<>>] IN
  IF z = NoZip \/ file > Len(z.sheets) THEN none
  ELSE IF z.sheets[file].drawing.state = "norels" THEN none
  ELSE LET sheetRels == IF z.sheets[file].drawing.state = "nodrawingrel"
                        THEN SheetRelsNoDrawing ELSE SheetRelsXml(file)
           drawingRel == findDrawingRelationship(sheetRels)
       IN IF drawingRel = <<>> THEN none
          ELSE LET drawingTarget == normalizeTargetPath("worksheets", drawingRel[1].target)
                   part == zipDrawing(z, drawingTarget)
                   drawingRels == parseRelationships(DrawingRelsXml)
                   parsed == parseDrawingXml(part.anchors)
               IN IF part.state = "absent" THEN none
                  ELSE IF part.state = "corrupt" THEN [threw |-> TRUE, images |-> <<>>]
                  ELSE [threw |-> FALSE,
                        images |-> [n \in 1..Len(parsed) |-> annotate(parsed[n], drawingRels)]]

\* history: the drawing relationship a descriptor goes through is External
drawingRelExternal(rid) ==
  LET drawingRels == parseRelationships(DrawingRelsXml) IN
  rid \in DOMAIN drawingRels /\ drawingRels[rid].targetMode = "External"

\* an id is bound to one cell of a sheet only
bindImageToCellOncePerSheet(byCell, imageInfo) ==
  IF \E n \in 1..Len(byCell) : imageInfo.id \in Range(byCell[n].v) THEN byCell
  ELSE MapSet(byCell, imageInfo.cellRef, <<imageInfo.id>>)

\* FloatingImageManager.bindImageToCell on the table of one sheet
bindImageToCell(byCell, imageInfo) ==
  MapSet(byCell, imageInfo.cellRef,
         IF MapHas(byCell, imageInfo.cellRef)
         THEN Append(MapGet(byCell, imageInfo.cellRef), imageInfo.id)
         ELSE <<imageInfo.id>>)

----------------------------------------------------------------------------
(* ExcelImageReader: cells and worksheets                                  *)

\* ExcelImageReader.parseCell; `cell` is <<>> for an undefined cell, image is
\* <<>> when the cell has no image field
parseCell(cell, cellRef, images) ==
  IF cell = <<>>
  THEN [ref |-> cellRef, value |-> "", type |-> "string", image |-> <<>>]
  ELSE LET c == cell[1]
           baseType == IF c.t = "s" THEN "string"
                       ELSE IF c.t = "n" THEN "number"
                       ELSE IF c.f.isStr THEN "formula"
                       ELSE "string"
           lookup(arg) == IF arg # "" /\ MapHas(images, arg)
                          THEN <<MapGet(images, arg)>> ELSE <<>>
       IN IF c.v.isStr /\ c.v.disp
          THEN [ref |-> cellRef, value |-> c.v.txt, type |-> "image",
                image |-> lookup(c.v.arg)]
          ELSE IF c.f.isStr /\ c.f.disp
          THEN [ref |-> cellRef, value |-> c.v.txt, type |-> "image",
                image |-> lookup(c.f.arg)]
          ELSE [ref |-> cellRef, value |-> c.v.txt, type |-> baseType, image |-> <<>>]

\* ExcelImageReader.isImageCell
isImageCell(cell) ==
  IF cell = <<>> THEN FALSE
  ELSE (cell[1].v.isStr /\ cell[1].v.disp) \/ (cell[1].f.isStr /\ cell[1].f.disp)

\* ExcelImageReader.extractImageIdFromCell: "" is null; the formula is
\* searched before the value
extractImageIdFromCell(cell) ==
  IF cell = <<>> THEN ""
  ELSE IF cell[1].f.isStr /\ cell[1].f.disp THEN cell[1].f.arg
  ELSE IF cell[1].v.isStr /\ cell[1].v.disp THEN cell[1].v.arg
  ELSE ""

\* the ids of one cell's binding list counted each, the cell listed once
countFloatingOncePerCell(floatingIds, cellRef, row) ==
  IF floatingIds = <<>> THEN row
  ELSE [row EXCEPT !.rowSeen = @ \cup Range(floatingIds),
                   !.imageCount = @ + Len(floatingIds),
                   !.total = @ + Len(floatingIds),
                   !.imageCells = Append(@, cellRef)]

RECURSIVE countFloating(_, _, _)
\* parseWorksheet lines 343-350: the ids of one cell's binding list, each
\* counted unless the row has seen it
countFloating(floatingIds, cellRef, row) ==
  IF floatingIds = <<>> THEN row
  ELSE LET fid == Head(floatingIds) IN
       countFloating(Tail(floatingIds), cellRef,
         IF fid \notin row.rowSeen
         THEN [row EXCEPT !.rowSeen = @ \cup {fid}, !.imageCount = @ + 1,
                          !.total = @ + 1, !.imageCells = Append(@, cellRef)]
         ELSE row)

\* one cell of the scan, the cell taking the image of the last id bound to it
scanCellLastBound(ws, images, floatingForSheet, options, rowNum, colNum, row) ==
  LET cellRef == encode_cell(rowNum, colNum)
      cell == IF cellRef \in DOMAIN ws.cells THEN <<ws.cells[cellRef]>> ELSE <<>>
      floatingIds == IF MapHas(floatingForSheet, cellRef)
                     THEN MapGet(floatingForSheet, cellRef) ELSE <<>>
      counted == countFloating(floatingIds, cellRef, row)
  IN IF cell # <<>> \/ options.includeEmptyColumns
     THEN LET parsed == parseCell(cell, cellRef, images)
              cellData == IF parsed.image = <<>> /\ floatingIds # <<>>
                             /\ MapHas(images, floatingIds[Len(floatingIds)])
                          THEN [parsed EXCEPT
                                  !.image = <<MapGet(images, floatingIds[Len(floatingIds)])>>]
                          ELSE parsed
              withCell == [counted EXCEPT !.cells = Append(@, cellData)]
              imageId == extractImageIdFromCell(cell)
          IN IF isImageCell(cell) /\ imageId # "" /\ MapHas(images, imageId)
             THEN [withCell EXCEPT !.imageCount = @ + 1, !.total = @ + 1,
                                   !.imageCells = Append(@, cellRef)]
             ELSE withCell
     ELSE counted

\* parseWorksheet lines 336-371: one cell of the scan
scanCell(ws, images, floatingForSheet, options, rowNum, colNum, row) ==
  LET cellRef == encode_cell(rowNum, colNum)
      cell == IF cellRef \in DOMAIN ws.cells THEN <<ws.cells[cellRef]>> ELSE <<>>
      floatingIds == IF MapHas(floatingForSheet, cellRef)
                     THEN MapGet(floatingForSheet, cellRef) ELSE <<>>
      counted == countFloating(floatingIds, cellRef, row)
  IN IF cell # <<>> \/ options.includeEmptyColumns
     THEN LET parsed == parseCell(cell, cellRef, images)
              cellData == IF parsed.image = <<>> /\ floatingIds # <<>>
                             /\ MapHas(images, floatingIds[1])
                          THEN [parsed EXCEPT !.image = <<MapGet(images, floatingIds[1])>>]
                          ELSE parsed
              withCell == [counted EXCEPT !.cells = Append(@, cellData)]
              imageId == extractImageIdFromCell(cell)
          IN IF isImageCell(cell) /\ imageId # "" /\ MapHas(images, imageId)
             THEN [withCell EXCEPT !.imageCount = @ + 1, !.total = @ + 1,
                                   !.imageCells = Append(@, cellRef)]
             ELSE withCell
     ELSE counted

RECURSIVE scanCols(_, _, _, _, _, _, _, _)
scanCols(ws, images, floatingForSheet, options, rowNum, colNum, endCol, row) ==
  IF colNum > endCol THEN row
  ELSE scanCols(ws, images, floatingForSheet, options, rowNum, colNum + 1, endCol,
                scanCell(ws, images, floatingForSheet, options, rowNum, colNum, row))

\* parseWorksheet lines 317-372: the row record of one scanned row; `total`
\* is what the row adds to the sheet's totalImages
scanRow(ws, images, floatingForSheet, options, rowNum, startCol, endCol) ==
  scanCols(ws, images, floatingForSheet, options, rowNum, startCol, endCol,
           [rowNumber |-> rowNum + 1, cells |-> <<>>, imageCount |-> 0,
            imageCells |-> <<>>, rowSeen |-> {}, total |-> 0])

\* the declared dimension, whatever the bindings
effectiveRangeDeclared(keys, rng) == rng

RECURSIVE effectiveRange(_, _)
\* parseWorksheet lines 301-313
effectiveRange(keys, rng) ==
  IF keys = <<>> THEN rng
  ELSE LET coord == decode_cell(Head(keys)) IN
       effectiveRange(Tail(keys),
         [startRow |-> IF coord.r < rng.startRow THEN coord.r ELSE rng.startRow,
          startCol |-> IF coord.c < rng.startCol THEN coord.c ELSE rng.startCol,
          endRow |-> IF coord.r > rng.endRow THEN coord.r ELSE rng.endRow,
          endCol |-> IF coord.c > rng.endCol THEN coord.c ELSE rng.endCol])

\* the row is kept when it counts an image as well
keepRowOrImages(row, options) ==
  \/ options.includeEmptyRows
  \/ \E n \in 1..Len(row.cells) : row.cells[n].value # ""
  \/ row.imageCount > 0

\* parseWorksheet line 380: the row is kept
keepRow(row, options) ==
  options.includeEmptyRows \/ \E n \in 1..Len(row.cells) : row.cells[n].value # ""

\* ExcelImageReader.parseWorksheet for a defined worksheet object
parseWorksheet(ws, images, floatingForSheet, options) ==
  LET rng == effectiveRange([n \in 1..Len(floatingForSheet) |-> floatingForSheet[n].k],
                            [startRow |-> ws.ref.s.r, startCol |-> ws.ref.s.c,
                             endRow |-> ws.ref.e.r, endCol |-> ws.ref.e.c])
      scanned == [n \in 1..(rng.endRow - rng.startRow + 1) |->
                    scanRow(ws, images, floatingForSheet, options,
                            rng.startRow + n - 1, rng.startCol, rng.endCol)]
      kept == FilterSeq(scanned, {r \in Range(scanned) : keepRow(r, options)})
  IN [name |-> ws.name,
      dimension |-> [start |-> encode_cell(ws.ref.s.r, ws.ref.s.c),
                     end |-> encode_cell(ws.ref.e.r, ws.ref.e.c)],
      rows |-> [n \in 1..Len(kept) |->
                  [rowNumber |-> kept[n].rowNumber, cells |-> kept[n].cells,
                   imageCount |-> kept[n].imageCount, imageCells |-> kept[n].imageCells]],
      totalImages |-> SumSeq([n \in 1..Len(scanned) |-> scanned[n].total]),
      rowsWithImages |-> Cardinality({n \in 1..Len(scanned) : scanned[n].imageCount > 0})]

\* FloatingImageManager.getSheetFloatingImages
getSheetFloatingImages(bySheet, sheetName) == bySheet[sheetName]

RECURSIVE walkSheets(_, _, _, _)
\* parseFile lines 73-77 / parseBuffer lines 122-126: the loop over
\* workbook.SheetNames.  workbook.Sheets[name] is undefined for a sheet whose
\* part SheetJS could not parse; parseWorksheet then raises at line 290 and
\* the loop is left.
walkSheets(sheets, images, bySheet, options) ==
  IF sheets = <<>> THEN [worksheets |-> <<>>, threw |-> FALSE]
  ELSE IF ~Head(sheets).defined THEN [worksheets |-> <<>>, threw |-> TRUE]
  ELSE LET rest == walkSheets(Tail(sheets), images, bySheet, options) IN
       [worksheets |->
          <<parseWorksheet(Head(sheets), images,
                           getSheetFloatingImages(bySheet, Head(sheets).name), options)>>
          \o rest.worksheets,
        threw |-> rest.threw]

----------------------------------------------------------------------------
(* State                                                                   *)

VARIABLES
  zip,                    \* ExcelImageReader.zip
  cellImagesXml,          \* ExcelImageReader.cellImagesXml
  cellImagesRels,         \* ExcelImageReader.cellImagesRels
  extractorZip,           \* ExcelImageReader.imageExtractor.zip
  fimZip,                 \* FloatingImageManager.imageExtractor.zip
  floatingImagesBySheet,  \* FloatingImageManager.floatingImagesBySheet
  pc,                     \* the await point the call in flight is suspended at
  pkg,                    \* the package the call was given
  options,                \* defaultOptions of the call
  result,                 \* the call's ExcelParseResult
  cellImages,             \* parseCellImages: the parsed declarations
  relationshipMap,        \* parseCellImages: the parsed relationships
  idx,                    \* parseCellImages: position in cellImages
  sheetsMap,              \* parseFloatingImages: the sheets to visit
  sheetIdx,               \* parseFloatingImages: position in sheetsMap
  floatingImages,         \* parseSheetFloatingImages: the sheet's descriptors
  imgIdx,                 \* parseSheetFloatingImages: position in floatingImages
  extractLog,             \* history: the calls of extractImageData
  thrown,                 \* history: the exceptions raised during the call
  reused,                 \* history: the reader had served a call before this one
  other,                  \* the frame of a second call on the reader, suspended at an await
  input,                  \* the input of a function applied on its own
  output                  \* what the function returned for input

vars == <<zip, cellImagesXml, cellImagesRels, extractorZip, fimZip,
          floatingImagesBySheet, pc, pkg, options, result, cellImages,
          relationshipMap, idx, sheetsMap, sheetIdx, floatingImages, imgIdx,
          extractLog, thrown, reused, other, input, output>>

auxVars == <<other, input, output>>

readerVars == <<zip, cellImagesXml, cellImagesRels, extractorZip, fimZip,
                floatingImagesBySheet>>
namedVars == <<cellImages, relationshipMap, idx>>
floatVars == <<sheetsMap, sheetIdx, floatingImages, imgIdx>>

NoPart == [present |-> FALSE, items |-> <<>>]
EmptyBySheet == [n \in SheetNames |-> <<>>]
EmptyResult == [worksheets |-> <<>>, images |-> <<>>, errors |-> <<>>]
DefaultOptions ==
  [includeImages |-> TRUE, includeEmptyRows |-> FALSE, includeEmptyColumns |-> FALSE]

Err(kind, reason, id, sheet, cell) ==
  [kind |-> kind, reason |-> reason, id |-> id, sheet |-> sheet, cell |-> cell]
Fatal(kind, message) == Err(kind, message, "", "", NoCell)
Event(what, sheet, id) == [what |-> what, sheet |-> sheet, id |-> id]

\* the binding table left as it is
clearNothing(bySheet) == bySheet

\* only the first sheet's bindings are dropped
clearFirstSheetOnly(bySheet) == [bySheet EXCEPT !["Sheet1"] = <<>>]

\* FloatingImageManager.clear
clear(bySheet) == EmptyBySheet

\* a named image stored under its relationship id
registerNamedUnderRelationship(images, id, cellImage) ==
  MapSet(images, cellImage.relationshipId, cellImage)

\* parseCellImages line 215
registerNamed(images, id, cellImage) == MapSet(images, id, cellImage)

\* a new floating image put in front of the entries
registerFloatingInFront(images, id, cellImage) ==
  IF ~MapHas(images, id) THEN <<[k |-> id, v |-> cellImage]>> \o images ELSE images

\* an extracted floating image that is never stored
registerFloatingNever(images, id, cellImage) == images

\* processFloatingImage lines 180-182
registerFloating(images, id, cellImage) ==
  IF ~MapHas(images, id) THEN MapSet(images, id, cellImage) ELSE images

\* the locals of a call that has not started
IdleFrame ==
  [pc |-> "idle", pkg |-> NoZip, options |-> DefaultOptions, result |-> EmptyResult,
   cellImages |-> <<>>, relationshipMap |-> <<>>, idx |-> 1, sheetsMap |-> <<>>,
   sheetIdx |-> 1, floatingImages |-> <<>>, imgIdx |-> 1, extractLog |-> {},
   thrown |-> {}, reused |-> FALSE]

\* new ExcelImageReader() and no call made
InitReader ==
  /\ zip = NoZip
  /\ cellImagesXml = NoPart
  /\ cellImagesRels = NoPart
  /\ extractorZip = NoZip
  /\ fimZip = NoZip
  /\ floatingImagesBySheet = EmptyBySheet
  /\ pc = "idle"
  /\ pkg = NoZip
  /\ options = DefaultOptions
  /\ result = EmptyResult
  /\ cellImages = <<>>
  /\ relationshipMap = <<>>
  /\ idx = 1
  /\ sheetsMap = <<>>
  /\ sheetIdx = 1
  /\ floatingImages = <<>>
  /\ imgIdx = 1
  /\ extractLog = {}
  /\ thrown = {}
  /\ reused = FALSE
  /\ other = IdleFrame

Init ==
  /\ InitReader
  /\ input = <<>>
  /\ output = <<>>

\* parseFile lines 73-81 / parseBuffer lines 122-130: the walk over the
\* sheets and the catch block around it (the two methods differ in the
\* prefix of the message only)
walkResult(sheets, res, bySheet, opts) ==
  LET walk == walkSheets(sheets, res.images, bySheet, opts) IN
  [res EXCEPT !.worksheets = walk.worksheets,
              !.errors = IF walk.threw
                         THEN Append(@, Fatal("parse", "worksheet is undefined"))
                         ELSE @]

walkThrew(sheets) == \E n \in 1..Len(sheets) : ~sheets[n].defined

\* The reader is used again only after a package of ReusePackages
CanStart == pc = "idle" \/ (pc = "done" /\ pkg \in ReusePackages)

\* parseFile lines 43-84 / parseBuffer lines 92-133 up to the first await:
\* the reset of the reader, XLSX.read and, when includeImages is off, the
\* whole walk.
startCall(p, o) ==
  /\ zip' = NoZip
  /\ cellImagesXml' = NoPart
  /\ cellImagesRels' = NoPart
  /\ floatingImagesBySheet' = clear(floatingImagesBySheet)
  /\ UNCHANGED <<extractorZip, fimZip>>
  /\ pkg' = p
  /\ options' = o
  /\ cellImages' = <<>> /\ relationshipMap' = <<>> /\ idx' = 1
  /\ sheetsMap' = <<>> /\ sheetIdx' = 1 /\ floatingImages' = <<>> /\ imgIdx' = 1
  /\ extractLog' = {}
  /\ reused' = (pc = "done")
  /\ UNCHANGED auxVars
  /\ IF ~p.xlsxOk
     THEN /\ result' = [EmptyResult EXCEPT
                          !.errors = <<Fatal("parse", "cannot read the workbook")>>]
          /\ thrown' = {Event("read", "", "")}
          /\ pc' = "done"
     ELSE IF o.includeImages
     THEN /\ result' = EmptyResult
          /\ thrown' = {}
          /\ pc' = "load"
     ELSE /\ result' = walkResult(p.sheets, EmptyResult,
                                  floatingImagesBySheet', o)
          /\ thrown' = IF walkThrew(p.sheets) THEN {Event("walk", "", "")} ELSE {}
          /\ pc' = "done"

\* ExcelImageReader.parseFile
parseFile(p, o) == startCall(p, o)

\* ExcelImageReader.parseBuffer
parseBuffer(p, o) == startCall(p, o)

\* extractImagesFromBuffer lines 153-160: JSZip.loadAsync resolves or rejects
LoadZip ==
  /\ pc = "load"
  /\ IF pkg.zipOk
     THEN /\ zip' = pkg
          /\ fimZip' = pkg
          /\ extractorZip' = pkg
          /\ pc' = "cellimages"
          /\ UNCHANGED <<result, thrown>>
     ELSE /\ result' = [result EXCEPT
                          !.errors = Append(@, Fatal("extractImages", "not a zip archive"))]
          /\ thrown' = thrown \cup {Event("zip", "", "")}
          /\ pc' = "finish"
          /\ UNCHANGED <<zip, fimZip, extractorZip>>
  /\ UNCHANGED <<cellImagesXml, cellImagesRels, floatingImagesBySheet, pkg,
                 options, namedVars, floatVars, extractLog, reused, auxVars>>

\* extractImagesFromBuffer lines 162-177 and parseCellImages lines 189-199:
\* the two cellimages parts are read through this.zip and parsed
ReadCellImages ==
  /\ pc = "cellimages"
  /\ LET xml == IF zip.cellImages.present THEN zip.cellImages ELSE cellImagesXml
         rels == IF zip.cellImages.present
                 THEN [present |-> TRUE, items |-> CellImagesRelsXml] ELSE cellImagesRels
         parsed == parseCellImagesXml(xml.items)
     IN /\ cellImagesXml' = xml
        /\ cellImagesRels' = rels
        /\ IF xml.present /\ rels.present /\ zip # NoZip
           THEN /\ relationshipMap' = parseRelationships(rels.items)
                /\ cellImages' = parsed
                /\ pc' = IF parsed = <<>> THEN "sheetsmap" ELSE "named"
           ELSE /\ UNCHANGED <<relationshipMap, cellImages>>
                /\ pc' = "sheetsmap"
  /\ idx' = 1
  /\ UNCHANGED <<zip, extractorZip, fimZip, floatingImagesBySheet, pkg, options,
                 result, floatVars, extractLog, thrown, reused, auxVars>>

\* parseCellImages lines 203-218: one iteration of the loop
ExtractNamedImage ==
  /\ pc = "named"
  /\ LET cellImage == cellImages[idx] IN
     IF cellImage.relationshipId \in DOMAIN relationshipMap
     THEN LET relationship == relationshipMap[cellImage.relationshipId]
              imageResult == extractImageData(extractorZip, relationship.target)
          IN /\ extractLog' = extractLog \cup
                   {[src |-> "cellimages", rid |-> relationship.id,
                     external |-> relationship.targetMode = "External",
                     path |-> relationship.target]}
             /\ thrown' = IF extractThrows(extractorZip, relationship.target)
                          THEN thrown \cup {Event("media", "", cellImage.id)} ELSE thrown
             /\ result' = IF imageResult # <<>>
                          THEN [result EXCEPT !.images =
                                  registerNamed(@, cellImage.id,
                                    createCellImage(cellImage.id, cellImage.relationshipId,
                                                    imageResult[1]))]
                          ELSE result
     ELSE UNCHANGED <<extractLog, thrown, result>>
  /\ idx' = idx + 1
  /\ pc' = IF idx = Len(cellImages) THEN "sheetsmap" ELSE "named"
  /\ UNCHANGED <<readerVars, pkg, options, cellImages, relationshipMap, floatVars, reused,
                 auxVars>>

\* FloatingImageManager.parseFloatingImages lines 33-41 with getSheetsMap
GetSheetsMap ==
  /\ pc = "sheetsmap"
  /\ sheetsMap' = getSheetsMap(fimZip)
  /\ sheetIdx' = 1
  /\ pc' = IF getSheetsMap(fimZip) = <<>> THEN "finish" ELSE "sheet"
  /\ UNCHANGED <<readerVars, pkg, options, result, namedVars, floatingImages,
                 imgIdx, extractLog, thrown, reused, auxVars>>

\* the position after the current sheet
nextSheet ==
  /\ sheetIdx' = sheetIdx + 1
  /\ pc' = IF sheetIdx = Len(sheetsMap) THEN "finish" ELSE "sheet"

\* FloatingImageManager.parseSheetFloatingImages lines 66-93 up to the loop
ParseSheetDrawing ==
  /\ pc = "sheet"
  /\ LET sf == sheetFloatingImages(fimZip, sheetsMap[sheetIdx].file) IN
     /\ thrown' = IF sf.threw
                  THEN thrown \cup {Event("drawing", sheetsMap[sheetIdx].name, "")}
                  ELSE thrown
     /\ floatingImages' = sf.images
     /\ imgIdx' = 1
     /\ IF sf.images = <<>> THEN nextSheet ELSE pc' = "float" /\ sheetIdx' = sheetIdx
  /\ UNCHANGED <<readerVars, pkg, options, result, namedVars, sheetsMap, extractLog, reused,
                 auxVars>>

\* FloatingImageManager.processFloatingImage, one descriptor of the sheet
ProcessFloatingImage ==
  /\ pc = "float"
  /\ LET imageInfo == floatingImages[imgIdx]
         info == imageInfo.info
         sheetName == sheetsMap[sheetIdx].name
         skipped(reason) ==
           /\ result' = [result EXCEPT !.errors =
                           Append(@, Err("[skip]", reason, info.id, sheetName, info.cellRef))]
           /\ UNCHANGED <<floatingImagesBySheet, extractLog, thrown>>
     IN IF imageInfo.skip # "" THEN skipped(imageInfo.skip)
        ELSE IF imageInfo.mediaPath = <<>> THEN skipped("missing_media_path")
        ELSE LET mediaPath == imageInfo.mediaPath[1]
                 imageResult == extractImageData(fimZip, mediaPath)
             IN /\ extractLog' = extractLog \cup
                      {[src |-> "drawing", rid |-> info.relationshipId,
                        external |-> drawingRelExternal(info.relationshipId),
                        path |-> mediaPath]}
                /\ thrown' = IF extractThrows(fimZip, mediaPath)
                             THEN thrown \cup {Event("media", sheetName, info.id)}
                             ELSE thrown
                /\ IF imageResult = <<>>
                   THEN /\ result' = [result EXCEPT !.errors =
                                        Append(@, Err("[skip]", "extract_failed", info.id,
                                                      sheetName, info.cellRef))]
                        /\ UNCHANGED floatingImagesBySheet
                   ELSE /\ result' = [result EXCEPT !.images =
                                        registerFloating(@, info.id,
                                          createCellImage(info.id, info.relationshipId,
                                                          imageResult[1]))]
                        /\ floatingImagesBySheet' =
                             [floatingImagesBySheet EXCEPT
                                ![sheetName] = bindImageToCell(@, info)]
  /\ IF imgIdx = Len(floatingImages)
     THEN nextSheet /\ imgIdx' = 1
     ELSE imgIdx' = imgIdx + 1 /\ pc' = "float" /\ sheetIdx' = sheetIdx
  /\ UNCHANGED <<zip, cellImagesXml, cellImagesRels, extractorZip, fimZip, pkg,
                 options, namedVars, sheetsMap, floatingImages, reused, auxVars>>

\* parseFile lines 72-83 / parseBuffer lines 121-132 once extractImages has
\* settled: the walk over the sheets
FinishParse ==
  /\ pc = "finish"
  /\ result' = walkResult(pkg.sheets, result, floatingImagesBySheet, options)
  /\ thrown' = IF walkThrew(pkg.sheets) THEN thrown \cup {Event("walk", "", "")} ELSE thrown
  /\ pc' = "done"
  /\ UNCHANGED <<readerVars, pkg, options, namedVars, floatVars, extractLog, reused,
                 auxVars>>

\* new ExcelImageReader(): the caller drops the reader and constructs another
NewReader ==
  /\ pc = "done"
  /\ zip' = NoZip /\ cellImagesXml' = NoPart /\ cellImagesRels' = NoPart
  /\ extractorZip' = NoZip /\ fimZip' = NoZip
  /\ floatingImagesBySheet' = EmptyBySheet
  /\ pc' = "idle" /\ pkg' = NoZip /\ options' = DefaultOptions
  /\ result' = EmptyResult
  /\ cellImages' = <<>> /\ relationshipMap' = <<>> /\ idx' = 1
  /\ sheetsMap' = <<>> /\ sheetIdx' = 1 /\ floatingImages' = <<>> /\ imgIdx' = 1
  /\ extractLog' = {} /\ thrown' = {} /\ reused' = FALSE
  /\ UNCHANGED auxVars

Next ==
  \/ CanStart /\ \E p \in Packages, o \in Options : parseFile(p, o)
  \/ CanStart /\ \E p \in Packages, o \in Options : parseBuffer(p, o)
  \/ LoadZip
  \/ ReadCellImages
  \/ ExtractNamedImage
  \/ GetSheetsMap
  \/ ParseSheetDrawing
  \/ ProcessFloatingImage
  \/ FinishParse
  \/ NewReader

Spec == Init /\ [][Next]_vars

----------------------------------------------------------------------------
(* Two calls on one reader.  Every handler above is a step between two     *)
(* awaits of one call; at an await the event loop may resume another       *)
(* pending call.  The reader's fields are shared, the locals of parseBuffer *)
(* and of the functions it awaits belong to the call.                      *)

\* the locals of the call that is running
Frame ==
  [pc |-> pc, pkg |-> pkg, options |-> options, result |-> result,
   cellImages |-> cellImages, relationshipMap |-> relationshipMap, idx |-> idx,
   sheetsMap |-> sheetsMap, sheetIdx |-> sheetIdx, floatingImages |-> floatingImages,
   imgIdx |-> imgIdx, extractLog |-> extractLog, thrown |-> thrown, reused |-> reused]

\* The packages given to two calls that overlap: their media bytes, named
\* declarations and anchors differ
ConcurrentPackages ==
  ReusePackages
  \cup {Package(TRUE, TRUE, 1, <<Named("a", "rId1")>>,
                 <<Sheet("Sheet1", TRUE, [ref |-> RefTo(0), cells |-> CellsOf(CellText, 1)],
                         Drawing("ok", <<Anchor("b", "rId2", 0, 0)>>))>>)}

\* The positions of a call at which an await has yielded and the next step
\* reads the reader's fields afresh: JSZip.loadAsync (line 154), the awaits
\* of parseFloatingImages before a sheet (FloatingImageManager lines 36, 40)
\* and before a descriptor (lines 84, 88), the return of extractImages
\* (line 118).  Between the other steps the source reads the handle before
\* it awaits, so no switch is placed there.
YieldPoints == {"load", "sheet", "float", "finish"}

\* The running call is suspended at an await (or has returned) and the event
\* loop runs the other call of the reader: one that waits at its own await,
\* or one the caller makes now.
Switch ==
  /\ pc \in YieldPoints \cup {"done"}
  /\ other.pc # "done"
  /\ other' = Frame
  /\ pc' = other.pc /\ pkg' = other.pkg /\ options' = other.options
  /\ result' = other.result
  /\ cellImages' = other.cellImages /\ relationshipMap' = other.relationshipMap
  /\ idx' = other.idx
  /\ sheetsMap' = other.sheetsMap /\ sheetIdx' = other.sheetIdx
  /\ floatingImages' = other.floatingImages /\ imgIdx' = other.imgIdx
  /\ extractLog' = other.extractLog /\ thrown' = other.thrown /\ reused' = other.reused
  /\ UNCHANGED <<readerVars, input, output>>

NextConcurrent ==
  \/ pc = "idle" /\ \E p \in ConcurrentPackages : parseBuffer(p, DefaultOptions)
  \/ LoadZip
  \/ ReadCellImages
  \/ ExtractNamedImage
  \/ GetSheetsMap
  \/ ParseSheetDrawing
  \/ ProcessFloatingImage
  \/ FinishParse
  \/ Switch

SpecConcurrent == Init /\ [][NextConcurrent]_vars

----------------------------------------------------------------------------
(* Properties                                                              *)

Done == pc = "done"
InFlight == pc \notin {"idle", "done"}

\* the package sheet a worksheet record was built from
SheetOf(name) == pkg.sheets[CHOOSE n \in 1..Len(pkg.sheets) : pkg.sheets[n].name = name]

Worksheets == Range(result.worksheets)
RowsOf(w) == Range(w.rows)
CellsOfRow(row) == Range(row.cells)

\* the id argument parseCell looks up for a DISPIMG cell
DispArgOf(c) == IF c.v.isStr /\ c.v.disp THEN c.v.arg ELSE c.f.arg

\* an error entry of the result that reports the exception ev
Reported(ev) ==
  \E n \in 1..Len(result.errors) :
    LET e == result.errors[n] IN
    CASE ev.what = "read" -> e.kind = "parse"
      [] ev.what = "walk" -> e.kind = "parse"
      [] ev.what = "zip" -> e.kind = "extractImages"
      [] ev.what = "drawing" -> e.sheet = ev.sheet
      [] OTHER -> e.id = ev.id /\ e.sheet = ev.sheet

\* C1: within one parse call an entry of result.images, once registered, is
\* never replaced or altered by a later registration with the same id.
C1_FirstRegisteredWins ==
  [][InFlight =>
       \A id \in MapKeys(result.images) :
         /\ MapHas(result'.images, id)
         /\ MapGet(result'.images, id) = MapGet(result.images, id)]_vars

\* C2: extractImageData is never called through a relationship whose
\* TargetMode is External, neither from the cellimages relationships nor from
\* a drawing's, and every named declaration that goes through such a
\* relationship leaves a skip reason in result.errors.
C2_ExternalNeverExtracted ==
  /\ \A e \in extractLog : ~e.external
  /\ \A n \in 1..Len(cellImages) :
       (/\ pc \in {"sheetsmap", "sheet", "float", "finish", "done"}
        /\ cellImages[n].relationshipId \in DOMAIN relationshipMap
        /\ relationshipMap[cellImages[n].relationshipId].targetMode = "External")
       => \E m \in 1..Len(result.errors) :
            result.errors[m].reason = "external" /\ result.errors[m].id = cellImages[n].id

\* C3: every cell that has an image field holds the entry result.images
\* stores under the image's id.
C3_CellImageInRegistry ==
  \A w \in Worksheets : \A row \in RowsOf(w) : \A cell \in CellsOfRow(row) :
    cell.image # <<>> =>
      /\ MapHas(result.images, cell.image[1].id)
      /\ MapGet(result.images, cell.image[1].id) = cell.image[1]

\* a finished call with a cell that shows a named image and a cell that shows
\* the representative of a floating binding
C3_Witness ==
  /\ Done
  /\ \E w \in Worksheets : \E row \in RowsOf(w) : \E cell \in CellsOfRow(row) :
       cell.image # <<>> /\ cell.type = "image"
  /\ \E w \in Worksheets : \E row \in RowsOf(w) : \E cell \in CellsOfRow(row) :
       cell.image # <<>> /\ cell.type = "string"

\* C4: every cell of type 'image' refers to an id that is a key of
\* result.images.
C4_ImageTypeResolves ==
  \A w \in Worksheets : \A row \in RowsOf(w) : \A cell \in CellsOfRow(row) :
    cell.type = "image" =>
      LET arg == DispArgOf(SheetOf(w.name).cells[cell.ref]) IN
      arg # "" /\ MapHas(result.images, arg)

\* the distinct image ids observed in a row: the ids bound to cells of the
\* row and the resolved DISPIMG ids of the row's cells
RowImageIds(w, row) ==
  LET byCell == floatingImagesBySheet[w.name]
      cells == SheetOf(w.name).cells
  IN UNION {Range(byCell[n].v) : n \in {m \in 1..Len(byCell) : byCell[m].k.row = row.rowNumber}}
     \cup {extractImageIdFromCell(<<cells[c.ref]>>) :
             c \in {d \in CellsOfRow(row) :
                      /\ d.ref \in DOMAIN cells
                      /\ isImageCell(<<cells[d.ref]>>)
                      /\ MapHas(result.images, extractImageIdFromCell(<<cells[d.ref]>>))}}

\* C5: a row's imageCount is the number of distinct image ids observed in the
\* row, floating bindings and resolved DISPIMG references together.
C5_RowCountsDistinctIds ==
  \A w \in Worksheets : \A row \in RowsOf(w) :
    row.imageCount = Cardinality(RowImageIds(w, row))

\* C6: totalImages is the sum of imageCount over the rows of the worksheet's
\* rows list.
C6_TotalIsSumOfRows ==
  \A w \in Worksheets :
    w.totalImages = SumSeq([n \in 1..Len(w.rows) |-> w.rows[n].imageCount])

\* C7: with default options every bound floating image surfaces: the rows of
\* its sheet contain the anchor's row, whose imageCells holds the anchor cell
\* and whose imageCount is at least 1.
C7_BoundImageRowEmitted ==
  (Done /\ options = DefaultOptions) =>
    \A w \in Worksheets :
      \A n \in 1..Len(floatingImagesBySheet[w.name]) :
        LET cellRef == floatingImagesBySheet[w.name][n].k IN
        \E row \in RowsOf(w) :
          /\ row.rowNumber = decode_cell(cellRef).r + 1
          /\ cellRef \in Range(row.imageCells)
          /\ row.imageCount >= 1

\* C8: a parse call always ends with a result object, and every failure met
\* on the way is a string of result.errors.
C8_EveryFailureInErrors ==
  Done => \A ev \in thrown : Reported(ev)

\* C9: a failure of one sheet or one image is reported in result.errors and
\* does not stop the others: every readable sheet of the workbook has its
\* worksheet record.
C9_FailuresIsolated ==
  (Done /\ pkg.xlsxOk) =>
    /\ \A ev \in thrown : ev.what \in {"drawing", "media", "walk"} => Reported(ev)
    /\ \A n \in 1..Len(pkg.sheets) :
         pkg.sheets[n].defined =>
           \E w \in Worksheets : w.name = pkg.sheets[n].name

----------------------------------------------------------------------------
(* The result of a parse call on a reader that was just constructed, as a  *)
(* function of the package and the options alone.                          *)

RECURSIVE FreshNamed(_, _, _, _)
FreshNamed(p, items, rels, images) ==
  IF items = <<>> THEN images
  ELSE LET item == Head(items)
           got == IF item.relationshipId \in DOMAIN rels
                  THEN extractImageData(p, rels[item.relationshipId].target) ELSE <<>>
       IN FreshNamed(p, Tail(items), rels,
            IF got = <<>> THEN images
            ELSE MapSet(images, item.id,
                        createCellImage(item.id, item.relationshipId, got[1])))

RECURSIVE FreshImagesOfSheet(_, _, _, _)
FreshImagesOfSheet(p, sheetName, infos, acc) ==
  IF infos = <<>> THEN acc
  ELSE LET x == Head(infos)
           got == IF x.skip = "" THEN extractImageData(p, x.mediaPath[1]) ELSE <<>>
           skip(reason) == Err("[skip]", reason, x.info.id, sheetName, x.info.cellRef)
       IN FreshImagesOfSheet(p, sheetName, Tail(infos),
            IF x.skip # "" THEN [acc EXCEPT !.errors = Append(@, skip(x.skip))]
            ELSE IF got = <<>> THEN [acc EXCEPT !.errors = Append(@, skip("extract_failed"))]
            ELSE [acc EXCEPT
                    !.images = IF MapHas(@, x.info.id) THEN @
                               ELSE Append(@, [k |-> x.info.id,
                                               v |-> createCellImage(x.info.id,
                                                       x.info.relationshipId, got[1])]),
                    !.bySheet[sheetName] = bindImageToCell(@, x.info)])

RECURSIVE FreshFloating(_, _, _)
FreshFloating(p, k, acc) ==
  IF k > Len(p.sheets) THEN acc
  ELSE FreshFloating(p, k + 1,
         FreshImagesOfSheet(p, p.sheets[k].name, sheetFloatingImages(p, k).images, acc))

FreshResult(p, o) ==
  IF ~p.xlsxOk
  THEN [EmptyResult EXCEPT !.errors = <<Fatal("parse", "cannot read the workbook")>>]
  ELSE IF ~o.includeImages THEN walkResult(p.sheets, EmptyResult, EmptyBySheet, o)
  ELSE IF ~p.zipOk
  THEN walkResult(p.sheets,
                  [EmptyResult EXCEPT !.errors = <<Fatal("extractImages", "not a zip archive")>>],
                  EmptyBySheet, o)
  ELSE LET named == IF p.cellImages.present
                    THEN FreshNamed(p, parseCellImagesXml(p.cellImages.items),
                                    parseRelationships(CellImagesRelsXml), <<>>)
                    ELSE <<>>
           acc == FreshFloating(p, 1, [images |-> named, errors |-> <<>>,
                                       bySheet |-> EmptyBySheet])
       IN walkResult(p.sheets,
                     [worksheets |-> <<>>, images |-> acc.images, errors |-> acc.errors],
                     acc.bySheet, o)

\* C10: in a sequence of calls on one reader the binding table is empty when
\* a call starts to resolve images, and the result of every call is the one
\* a fresh reader returns for the same package and options.
C10_ResultAsFreshReader ==
  /\ pc \in {"load", "cellimages", "named", "sheetsmap"}
       => floatingImagesBySheet = EmptyBySheet
  /\ Done => result = FreshResult(pkg, options)

\* a call on a used reader that returned images, bindings and counts
C10_Witness ==
  /\ Done /\ reused
  /\ result.images # <<>>
  /\ floatingImagesBySheet # EmptyBySheet
  /\ \E w \in Worksheets : w.totalImages > 0

\* a call with includeImages off on a reader that holds an earlier archive
C10_WitnessNoImages ==
  Done /\ reused /\ ~options.includeImages /\ fimZip # NoZip /\ result.worksheets # <<>>

----------------------------------------------------------------------------
(* DrawingParser.parseDrawingXml applied to a drawing part on its own      *)

\* The anchors of a drawing part: pictures with a name, a blank name or no
\* name, with or without a cNvPr id, with a relationship id that may be
\* blank; an anchor without picture, one without embed, one without xdr:from,
\* one whose xdr:from lacks the row and one whose xdr:from lacks the column
DrawingAnchors ==
  {[pic |-> TRUE, name |-> n, cNvPrId |-> i, embed |-> e, from |-> TRUE,
    row |-> rc[1], col |-> rc[2]] :
     n \in {"a", " a ", " ", ""}, i \in {"", "7"}, e \in {"rId1", " "},
     rc \in {<<0, 0>>, <<MaxRow, MaxCol>>}}
  \cup {[pic |-> FALSE, name |-> "a", cNvPrId |-> "", embed |-> "rId1", from |-> TRUE,
          row |-> 0, col |-> 0],
         [pic |-> TRUE, name |-> "a", cNvPrId |-> "", embed |-> "", from |-> TRUE,
          row |-> 0, col |-> 0],
         [pic |-> TRUE, name |-> "a", cNvPrId |-> "", embed |-> "rId1", from |-> FALSE,
          row |-> 0, col |-> 0],
         [pic |-> TRUE, name |-> "a", cNvPrId |-> "", embed |-> "rId1", from |-> TRUE,
          row |-> NaN, col |-> 0],
         [pic |-> TRUE, name |-> "a", cNvPrId |-> "", embed |-> "rId1", from |-> TRUE,
          row |-> MaxRow, col |-> NaN]}

DrawingXmlInputs ==
  {[anchors |-> l] :
     l \in {<<>>} \cup {<<x>> : x \in DrawingAnchors}
           \cup {<<x, y>> : x \in DrawingAnchors, y \in DrawingAnchors}}

InitDrawingParser ==
  /\ InitReader
  /\ input \in DrawingXmlInputs
  /\ output = <<>>

\* DrawingParser.parseDrawingXml(drawingXml)
ApplyParseDrawingXml ==
  /\ output = <<>>
  /\ output' = [floatingImages |-> parseDrawingXml(input.anchors)]
  /\ UNCHANGED <<readerVars, pc, pkg, options, result, namedVars, floatVars,
                 extractLog, thrown, reused, other, input>>

NextDrawingParser == ApplyParseDrawingXml

SpecDrawingParser == InitDrawingParser /\ [][NextDrawingParser]_vars

----------------------------------------------------------------------------
(* RelationshipParser.normalizeTargetPath applied to a target on its own   *)

\* Relationship targets: a first segment that is '..', empty (a leading
\* '/'), a folder name or a file name, alone or followed by more segments;
\* '../../x' and '//x'
TargetSegs ==
  {<<f>> : f \in {"..", "worksheets", "drawings", "media", "charts", "image1"}}
  \cup {<<f, "image1">> :
          f \in {"..", "", "worksheets", "drawings", "media", "charts"}}
  \cup {<<f, "media", "image1">> :
          f \in {"..", "", "worksheets", "drawings", "media", "charts"}}
  \cup {<<"..", "..", "media", "image1">>, <<"", "", "media", "image1">>,
        <<"", "..", "image1">>, <<"..", "", "image1">>}

NormalizeInputs ==
  {[fromFolder |-> f, target |-> Path(s, e)] :
     f \in {"worksheets", "drawings"}, s \in TargetSegs, e \in {"png", "xml"}}

InitNormalizeTargetPath ==
  /\ InitReader
  /\ input \in NormalizeInputs
  /\ output = <<>>

\* RelationshipParser.normalizeTargetPath(fromFolder, target)
ApplyNormalizeTargetPath ==
  /\ output = <<>>
  /\ output' = [path |-> normalizeTargetPath(input.fromFolder, input.target)]
  /\ UNCHANGED <<readerVars, pc, pkg, options, result, namedVars, floatVars,
                 extractLog, thrown, reused, other, input>>

NextNormalizeTargetPath == ApplyNormalizeTargetPath

SpecNormalizeTargetPath == InitNormalizeTargetPath /\ [][NextNormalizeTargetPath]_vars

----------------------------------------------------------------------------
(* ImageExtractor.extractImageData applied to one media part on its own    *)

\* Extensions in lower, upper and mixed case, unknown ones and none
MediaExtensions ==
  {"jpg", "jpeg", "png", "gif", "bmp", "webp",
   "JPG", "JPEG", "PNG", "GIF", "BMP", "WEBP", "Png", "Jpg",
   "tiff", "TIFF", "svg", "pn", "pngx", ""}

\* An archive holding the part under either of its two contents
MediaInputs ==
  {[zip |-> Package(TRUE, TRUE, ver, <<>>, <<>>), imagePath |-> Path(s, e)] :
     ver \in {1, 2}, s \in {<<"media", "pic">>, <<"media", "pic.png">>},
     e \in MediaExtensions}

InitExtractImageData ==
  /\ InitReader
  /\ input \in MediaInputs
  /\ output = <<>>

\* ImageExtractor.extractImageData(imagePath) on the archive input.zip
ApplyExtractImageData ==
  /\ output = <<>>
  /\ output' = [result |-> extractImageData(input.zip, input.imagePath)]
  /\ UNCHANGED <<readerVars, pc, pkg, options, result, namedVars, floatVars,
                 extractLog, thrown, reused, other, input>>

NextExtractImageData == ApplyExtractImageData

SpecExtractImageData == InitExtractImageData /\ [][NextExtractImageData]_vars

----------------------------------------------------------------------------

\* C11: when two calls on one reader interleave at their awaits, neither uses
\* an archive handle or a binding written by the other: each call returns
\* what it returns when it runs alone on its package.
C11_CallsOwnTheirState ==
  /\ Done => result = FreshResult(pkg, options)
  /\ other.pc = "done" => other.result = FreshResult(other.pkg, other.options)

\* why the drawing relationships and the archive make a descriptor unusable;
\* "" when its picture can be extracted
SkipReasonOf(z, info) ==
  LET drawingRels == parseRelationships(DrawingRelsXml) IN
  IF info.relationshipId \notin DOMAIN drawingRels THEN "missing_relationship"
  ELSE IF drawingRels[info.relationshipId].targetMode = "External" THEN "external"
  ELSE IF extractImageData(z, normalizeTargetPath("drawings",
                                drawingRels[info.relationshipId].target)) = <<>>
       THEN "extract_failed"
  ELSE ""

\* C12: a floating descriptor whose drawing relationship is missing or
\* External, or whose picture cannot be extracted, appends exactly one
\* '[skip] reason=...' entry to result.errors, adds nothing to result.images
\* and binds nothing, and the next descriptor of the drawing is processed.
C12_SkippedDescriptor ==
  [][(pc = "float" /\ SkipReasonOf(fimZip, floatingImages[imgIdx].info) # "") =>
       LET info == floatingImages[imgIdx].info IN
       /\ result'.errors =
            Append(result.errors,
                   Err("[skip]", SkipReasonOf(fimZip, info), info.id,
                       sheetsMap[sheetIdx].name, info.cellRef))
       /\ result'.images = result.images
       /\ floatingImagesBySheet' = floatingImagesBySheet
       /\ IF imgIdx < Len(floatingImages)
          THEN pc' = "float" /\ imgIdx' = imgIdx + 1 /\ floatingImages' = floatingImages
          ELSE pc' \in {"sheet", "finish"}]_vars

\* a skipped descriptor was followed by one of the same drawing that was
\* extracted and bound
C12_Witness ==
  /\ pc = "float" /\ imgIdx = 2
  /\ SkipReasonOf(fimZip, floatingImages[1].info) # ""
  /\ SkipReasonOf(fimZip, floatingImages[2].info) = ""
  /\ Len(result.errors) = 1 /\ result.errors[1].kind = "[skip]"

\* the sheets of a package that have no sheet relationship file, no drawing
\* relationship, or a drawing relationship to a part that is absent
NoDrawingSheets(p) ==
  {k \in 1..Len(p.sheets) : p.sheets[k].drawing.state \in NoDrawingStates}

RECURSIVE FloatingSkipping(_, _, _, _)
\* the floating pass over the sheets of p that are not in skip
FloatingSkipping(p, k, skip, acc) ==
  IF k > Len(p.sheets) THEN acc
  ELSE FloatingSkipping(p, k + 1, skip,
         IF k \in skip THEN acc
         ELSE FreshImagesOfSheet(p, p.sheets[k].name, sheetFloatingImages(p, k).images, acc))

\* C13: a sheet without sheet relationships, without a drawing relationship
\* or with a drawing relationship to an absent part gets no binding, no image
\* and no error entry, getSheetFloatingImages gives the empty map for it, and
\* the images, bindings and skip entries of the call are those of the other
\* sheets alone.
C13_SheetWithoutDrawing ==
  (Done /\ options.includeImages /\ pkg.xlsxOk /\ pkg.zipOk) =>
    LET named == IF pkg.cellImages.present
                 THEN FreshNamed(pkg, parseCellImagesXml(pkg.cellImages.items),
                                 parseRelationships(CellImagesRelsXml), <<>>)
                 ELSE <<>>
        others == FloatingSkipping(pkg, 1, NoDrawingSheets(pkg),
                                   [images |-> named, errors |-> <<>>,
                                    bySheet |-> EmptyBySheet])
    IN /\ \A k \in NoDrawingSheets(pkg) :
            /\ getSheetFloatingImages(floatingImagesBySheet, pkg.sheets[k].name) = <<>>
            /\ \A n \in 1..Len(result.errors) : result.errors[n].sheet # pkg.sheets[k].name
       /\ result.images = others.images
       /\ floatingImagesBySheet = others.bySheet
       /\ FilterSeq(result.errors, {e \in Range(result.errors) : e.kind = "[skip]"})
            = others.errors

\* a sheet whose drawing part is absent, followed by a sheet with a binding
C13_Witness ==
  /\ Done /\ options.includeImages /\ Len(pkg.sheets) = 2
  /\ pkg.sheets[1].drawing.state = "nopart"
  /\ floatingImagesBySheet["Sheet2"] # <<>>
  /\ result.images # <<>>

ImageKeys(m) == [n \in 1..Len(m) |-> m[n].k]

IsPrefix(s, t) == Len(s) <= Len(t) /\ s = SubSeq(t, 1, Len(s))

RECURSIVE KeepFirst(_, _)
\* a sequence without the repetitions of what came earlier
KeepFirst(s, seen) ==
  IF s = <<>> THEN <<>>
  ELSE IF Head(s) \in seen THEN KeepFirst(Tail(s), seen)
       ELSE <<Head(s)>> \o KeepFirst(Tail(s), seen \cup {Head(s)})

\* the ids of the named declarations of p whose picture can be extracted, in
\* declaration order
NamedDiscovered(p) ==
  LET rels == parseRelationships(CellImagesRelsXml)
      decl == IF p.cellImages.present THEN parseCellImagesXml(p.cellImages.items) ELSE <<>>
      found == {d \in Range(decl) :
                  /\ d.relationshipId \in DOMAIN rels
                  /\ extractImageData(p, rels[d.relationshipId].target) # <<>>}
      kept == FilterSeq(decl, found)
  IN [n \in 1..Len(kept) |-> kept[n].id]

RECURSIVE FloatingDiscovered(_, _)
\* the ids of the anchors of p whose picture can be extracted: the sheets in
\* workbook order from the k-th on, the anchors of a sheet in the order of
\* the parsed list
FloatingDiscovered(p, k) ==
  IF k > Len(p.sheets) THEN <<>>
  ELSE LET infos == IF p.sheets[k].drawing.state = "ok"
                    THEN parseDrawingXml(p.sheets[k].drawing.anchors) ELSE <<>>
           kept == FilterSeq(infos, {d \in Range(infos) : SkipReasonOf(p, d) = ""})
       IN [n \in 1..Len(kept) |-> kept[n].id] \o FloatingDiscovered(p, k + 1)

DiscoveryOrder(p) == KeepFirst(NamedDiscovered(p) \o FloatingDiscovered(p, 1), {})

\* C14: result.images is filled in discovery order: the named declarations
\* in declaration order, then the floating pictures in workbook sheet order
\* and, within a sheet, in anchor order; at every moment of a call the keys
\* are a prefix of that order and at its end they are all of it.
C14_DiscoveryOrder ==
  (pc # "idle" /\ pkg.xlsxOk /\ pkg.zipOk /\ options.includeImages) =>
    /\ IsPrefix(ImageKeys(result.images), DiscoveryOrder(pkg))
    /\ Done => ImageKeys(result.images) = DiscoveryOrder(pkg)

\* a call that registered a named image and then a floating image of another
\* id, with bindings on two sheets
C14_Witness ==
  /\ Done
  /\ Len(result.images) = 2
  /\ NamedDiscovered(pkg) = <<result.images[1].k>>
  /\ floatingImagesBySheet["Sheet1"] # <<>>
  /\ floatingImagesBySheet["Sheet2"] # <<>>

\* a call without named images whose second sheet brought the second entry
C14_WitnessSheetOrder ==
  /\ Done
  /\ NamedDiscovered(pkg) = <<>>
  /\ ImageKeys(result.images) = <<"b", "a">>
  /\ MapKeys(floatingImagesBySheet["Sheet1"]) # {}
  /\ \A n \in 1..Len(floatingImagesBySheet["Sheet1"]) :
       floatingImagesBySheet["Sheet1"][n].v = <<"b">>

\* C15: every entry of result.images carries the id it is stored under.
C15_KeyIsId ==
  \A n \in 1..Len(result.images) : result.images[n].v.id = result.images[n].k

\* a result with an entry of the named part and an entry of a drawing
C15_Witness ==
  /\ Done
  /\ \E n \in 1..Len(result.images) : result.images[n].k \in Range(NamedDiscovered(pkg))
  /\ \E n \in 1..Len(result.images) : result.images[n].k \notin Range(NamedDiscovered(pkg))

\* C16: when the workbook cannot be read, or the call tried to open the
\* archive and could not, the call returns no worksheets and at least one
\* entry in result.errors.
C16_FatalGivesNoWorksheets ==
  (Done /\ (~pkg.xlsxOk \/ (options.includeImages /\ ~pkg.zipOk))) =>
    result.worksheets = <<>> /\ result.errors # <<>>

RECURSIVE Base64Decode(_)
\* the bytes a base64 text stands for: four sextets give three bytes, '='
\* (64) closes a group of one or two bytes
Base64Decode(sextets) ==
  IF Len(sextets) < 4 THEN <<>>
  ELSE LET a == sextets[1]
           b == sextets[2]
           c == sextets[3]
           d == sextets[4]
       IN IF c = 64 THEN <<a * 4 + b \div 16>>
          ELSE IF d = 64 THEN <<a * 4 + b \div 16, (b % 16) * 16 + c \div 4>>
          ELSE <<a * 4 + b \div 16, (b % 16) * 16 + c \div 4, (c % 4) * 64 + d>>
               \o Base64Decode(SubSeq(sextets, 5, Len(sextets)))

\* C17: for every entry of result.images the data segment of its base64
\* field (a MIME type holds no ',', so the segment is what follows the
\* prefix) decodes to the bytes of the media part the entry was extracted
\* from, length and content.
C17_Base64RoundTrip ==
  \A n \in 1..Len(result.images) :
    LET img == result.images[n].v IN
    \E e \in extractLog :
      /\ e.rid = img.relationshipId
      /\ MediaPart(pkg.ver, e.path).state = "ok"
      /\ Base64Decode(img.base64.data) = MediaPart(pkg.ver, e.path).bytes
      /\ Len(Base64Decode(img.base64.data)) = Len(MediaPart(pkg.ver, e.path).bytes)
      /\ Len(img.base64.data) % 4 = 0

\* a result whose images come from a media part of one byte and from a part
\* of four bytes
C17_Witness ==
  /\ Done
  /\ \E n \in 1..Len(result.images) : Len(Base64Decode(result.images[n].v.base64.data)) = 1
  /\ \E n \in 1..Len(result.images) : Len(Base64Decode(result.images[n].v.base64.data)) = 4

\* a result with images of two and of three bytes
C17_WitnessOtherLengths ==
  /\ Done
  /\ \E n \in 1..Len(result.images) : Len(Base64Decode(result.images[n].v.base64.data)) = 2
  /\ \E n \in 1..Len(result.images) : Len(Base64Decode(result.images[n].v.base64.data)) = 3

\* C18: rowsWithImages is the number of rows of the worksheet's rows list
\* whose imageCount is greater than 0, whatever the options.
C18_RowsWithImagesCountsRows ==
  \A w \in Worksheets :
    w.rowsWithImages = Cardinality({n \in 1..Len(w.rows) : w.rows[n].imageCount > 0})

Min(S) == CHOOSE x \in S : \A y \in S : x <= y
Max(S) == CHOOSE x \in S : \A y \in S : x >= y

\* the range parseWorksheet scans for worksheet record w
ScanRangeOf(w) ==
  LET byCell == floatingImagesBySheet[w.name]
      ref == SheetOf(w.name).ref
  IN effectiveRange([n \in 1..Len(byCell) |-> byCell[n].k],
                    [startRow |-> ref.s.r, startCol |-> ref.s.c,
                     endRow |-> ref.e.r, endCol |-> ref.e.c])

\* the smallest rectangle that holds the declared dimension of w's sheet and
\* every cell of its binding table
BoundingBoxOf(w) ==
  LET coords == {decode_cell(k) : k \in MapKeys(floatingImagesBySheet[w.name])}
      ref == SheetOf(w.name).ref
  IN [startRow |-> Min({ref.s.r} \cup {x.r : x \in coords}),
      startCol |-> Min({ref.s.c} \cup {x.c : x \in coords}),
      endRow |-> Max({ref.e.r} \cup {x.r : x \in coords}),
      endCol |-> Max({ref.e.c} \cup {x.c : x \in coords})]

\* C19: the range parseWorksheet scans is the smallest rectangle holding the
\* declared dimension and every bound cell: it starts at or before and ends
\* at or after the declared one, and it is the declared one when the sheet
\* has no bindings.  With empty rows and columns included the rows and cells
\* of the worksheet record are exactly those of that rectangle.
C19_ScanRangeIsBoundingBox ==
  Done =>
    \A w \in Worksheets :
      LET rng == ScanRangeOf(w)
          ref == SheetOf(w.name).ref
      IN /\ rng = BoundingBoxOf(w)
         /\ rng.startRow <= ref.s.r /\ rng.startCol <= ref.s.c
         /\ rng.endRow >= ref.e.r /\ rng.endCol >= ref.e.c
         /\ floatingImagesBySheet[w.name] = <<>> =>
              rng = [startRow |-> ref.s.r, startCol |-> ref.s.c,
                     endRow |-> ref.e.r, endCol |-> ref.e.c]
         /\ (options.includeEmptyRows /\ options.includeEmptyColumns) =>
              /\ Len(w.rows) = rng.endRow - rng.startRow + 1
              /\ \A n \in 1..Len(w.rows) :
                   /\ w.rows[n].rowNumber = rng.startRow + n
                   /\ [m \in 1..Len(w.rows[n].cells) |-> w.rows[n].cells[m].ref]
                        = [m \in 1..(rng.endCol - rng.startCol + 1) |->
                             encode_cell(rng.startRow + n - 1, rng.startCol + m - 1)]

\* a sheet with one image bound above its declared dimension and one bound
\* left of it, read with empty rows and columns included
C19_Witness ==
  /\ Done /\ options.includeEmptyRows /\ options.includeEmptyColumns
  /\ \E w \in Worksheets :
       LET ref == SheetOf(w.name).ref
           coords == {decode_cell(k) : k \in MapKeys(floatingImagesBySheet[w.name])}
       IN /\ \E x \in coords : x.r < ref.s.r
          /\ \E x \in coords : x.c < ref.s.c
          /\ Len(w.rows) = 2

\* a sheet with an image bound below and one bound right of its dimension
C19_WitnessBeyondEnd ==
  /\ Done /\ options.includeEmptyRows /\ options.includeEmptyColumns
  /\ \E w \in Worksheets :
       LET ref == SheetOf(w.name).ref
           coords == {decode_cell(k) : k \in MapKeys(floatingImagesBySheet[w.name])}
       IN /\ \E x \in coords : x.r > ref.e.r
          /\ \E x \in coords : x.c > ref.e.c

\* the anchors of a drawing that give a descriptor, in document order
DescribedAnchors(anchors) ==
  FilterSeq(anchors, {x \in Range(anchors) :
                        x.pic /\ x.embed # "" /\ x.from /\ x.row # NaN /\ x.col # NaN})

\* the first non-blank of: trimmed name, cNvPr id, relationship id,
\* 'floating_<cellRef>'
FirstNonBlankId(anchor) ==
  LET cands == <<Trim(anchor.name), Trim(anchor.cNvPrId), Trim(anchor.embed),
                 FloatingId(encode_cell(anchor.row, anchor.col))>>
  IN cands[Min({i \in 1..4 : cands[i] # ""})]

\* C20: the id of a floating descriptor is the first non-blank value among
\* the picture's trimmed name, its numeric id, its relationship id and
\* 'floating_<cellRef>', and the ids of the descriptors of one drawing are
\* pairwise different.
C20_IdPriorityAndUnique ==
  output # <<>> =>
    LET infos == output.floatingImages
        anchors == DescribedAnchors(input.anchors)
    IN /\ Len(infos) = Len(anchors)
       /\ \A n \in 1..Len(infos) : infos[n].id = FirstNonBlankId(anchors[n])
       /\ \A n, m \in 1..Len(infos) : n # m => infos[n].id # infos[m].id

\* the part of C20 about the priority alone
C20_IdPriority ==
  output # <<>> =>
    LET infos == output.floatingImages
        anchors == DescribedAnchors(input.anchors)
    IN /\ Len(infos) = Len(anchors)
       /\ \A n \in 1..Len(infos) : infos[n].id = FirstNonBlankId(anchors[n])

\* The target as text with its first n segments removed, and with a folder
\* name put in front
DropSegs(target, n) == Path(SubSeq(target.segs, n + 1, Len(target.segs)), target.ext)

UnderFolder(folder, target) == Path(<<folder>> \o target.segs, target.ext)

\* the number of leading '/' of a target
LeadingSlashes(target) ==
  LET n == Len(target.segs) IN
  IF \A i \in 1..(n - 1) : target.segs[i] = "" THEN n - 1
  ELSE (CHOOSE i \in 1..n : target.segs[i] # "" /\ \A j \in 1..(i - 1) : target.segs[j] = "") - 1

\* target.startsWith(folder + '/')
HasPrefix(target, folder) == Len(target.segs) >= 2 /\ target.segs[1] = folder

\* the path the rule gives when `kept` are the folder names that leave a
\* target unchanged
NormalizedBy(kept, fromFolder, target) ==
  IF HasPrefix(target, "..") THEN DropSegs(target, 1)
  ELSE IF HasPrefix(target, "") THEN DropSegs(target, LeadingSlashes(target))
  ELSE IF \E f \in kept : HasPrefix(target, f) THEN target
  ELSE UnderFolder(fromFolder, target)

\* C21 as stated: normalizeTargetPath strips one leading '../', else the
\* leading slashes, else keeps a target starting with 'worksheets/',
\* 'drawings/' or 'media/', else puts fromFolder + '/' in front
C21_AsStated ==
  output # <<>> =>
    output.path = NormalizedBy({"worksheets", "drawings", "media"},
                               input.fromFolder, input.target)

\* C21 amended: as stated, except that from the drawings folder only
\* 'drawings/' and 'media/' leave the target unchanged, so a target starting
\* with 'worksheets/' gets 'drawings/' put in front
C21_NormalizeTargetPath ==
  output # <<>> =>
    output.path = NormalizedBy(IF input.fromFolder = "worksheets"
                                 THEN {"worksheets", "drawings", "media"}
                                 ELSE {"drawings", "media"},
                               input.fromFolder, input.target)

C21_Witness ==
  /\ output # <<>>
  /\ input.fromFolder = "drawings"
  /\ HasPrefix(input.target, "worksheets")
  /\ output.path = UnderFolder("drawings", input.target)

C21_WitnessEveryRule ==
  /\ output # <<>>
  /\ input.fromFolder = "worksheets"
  /\ input.target.segs = <<"", "", "media", "image1">>
  /\ output.path.segs = <<"media", "image1">>

\* the archive of an extraction with the part's other contents
WithOtherBytes(z) == [z EXCEPT !.ver = 3 - z.ver]

\* C22: the mimeType of extractImageData is fixed by the text after the last
\* '.' of the path, whatever its case: jpg/jpeg -> image/jpeg, png ->
\* image/png, gif -> image/gif, bmp -> image/bmp, webp -> image/webp, anything
\* else or nothing -> image/jpeg; the same path over other bytes gives the
\* same mimeType
C22_MimeFromExtension ==
  output # <<>> =>
    LET e == input.imagePath.ext
        m == output.result[1].mimeType
        again == extractImageData(WithOtherBytes(input.zip), input.imagePath)
    IN /\ output.result # <<>>
       /\ m = (IF e \in {"png", "PNG", "Png"} THEN "image/png"
               ELSE IF e \in {"gif", "GIF"} THEN "image/gif"
               ELSE IF e \in {"bmp", "BMP"} THEN "image/bmp"
               ELSE IF e \in {"webp", "WEBP"} THEN "image/webp"
               ELSE "image/jpeg")
       /\ again # <<>>
       /\ again[1].rawData # output.result[1].rawData
       /\ again[1].mimeType = m

C22_Witness ==
  /\ output # <<>>
  /\ input.imagePath = Path(<<"media", "pic.png">>, "GIF")
  /\ output.result[1].mimeType = "image/gif"
  /\ output.result[1].rawData = <<137, 80>>

C22_WitnessNoExtension ==
  /\ output # <<>>
  /\ input.imagePath.ext = ""
  /\ output.result[1].mimeType = "image/jpeg"

\* an anchor with a picture, a non-empty embed id and an xdr:from giving
\* both indices
Emits(anchor) ==
  /\ anchor.pic
  /\ anchor.embed # ""
  /\ anchor.from /\ anchor.row \in Nat /\ anchor.col \in Nat

\* the positions in the anchor list of the anchors that emit
EmittingPositions(anchors) == {i \in 1..Len(anchors) : Emits(anchors[i])}

\* the n-th smallest element of a set of numbers
Nth(S, n) == CHOOSE x \in S : Cardinality({y \in S : y < x}) = n - 1

\* C23: parseDrawingXml gives one descriptor per anchor that has a picture
\* with a non-empty embed id and finite 'from' indices, in anchor order; it
\* gives none for any other anchor, and the descriptor of an anchor is the
\* one it gets as the only anchor of a drawing, at the anchor's cell and
\* with the anchor's embed id
C23_OnlyCompleteAnchorsEmit ==
  output # <<>> =>
    LET infos == output.floatingImages
        anchors == input.anchors
        pos == EmittingPositions(anchors)
    IN /\ Len(infos) = Cardinality(pos)
       /\ \A n \in 1..Len(infos) :
            LET a == anchors[Nth(pos, n)] IN
            /\ <<infos[n]>> = parseDrawingXml(<<a>>)
            /\ infos[n].relationshipId = a.embed
            /\ infos[n].rowIndex = a.row /\ infos[n].colIndex = a.col
            /\ infos[n].cellRef = encode_cell(a.row, a.col)

C23_Witness ==
  /\ output # <<>>
  /\ Len(input.anchors) = 2
  /\ ~input.anchors[1].from
  /\ Emits(input.anchors[2])
  /\ Len(output.floatingImages) = 1
  /\ output.floatingImages[1].cellRef = encode_cell(MaxRow, MaxCol)

C23_WitnessNoColumn ==
  /\ output # <<>>
  /\ Len(input.anchors) = 2
  /\ Emits(input.anchors[1])
  /\ input.anchors[2].from /\ input.anchors[2].col = NaN
  /\ Len(output.floatingImages) = 1

\* the ids bound to cells of row number r in the binding table of w's sheet
BoundIdsInRow(w, r) ==
  LET byCell == floatingImagesBySheet[w.name] IN
  UNION {Range(byCell[n].v) : n \in {m \in 1..Len(byCell) : byCell[m].k.row = r}}

\* the cells of row number r of w's sheet whose DISPIMG id is in result.images
ResolvedDispCells(w, r) ==
  LET cells == SheetOf(w.name).cells IN
  {ref \in DOMAIN cells :
     /\ ref.row = r
     /\ isImageCell(<<cells[ref]>>)
     /\ MapHas(result.images, extractImageIdFromCell(<<cells[ref]>>))}

\* what row number r counts from its bindings and its DISPIMG cells alone
CountOfRow(w, r) ==
  Cardinality(BoundIdsInRow(w, r)) + Cardinality(ResolvedDispCells(w, r))

\* the row numbers parseWorksheet scans for w
ScannedRowNumbers(w) == (ScanRangeOf(w).startRow + 1)..(ScanRangeOf(w).endRow + 1)

\* the binding list of a cell of w's sheet, <<>> when the cell has none
BoundTo(w, ref) ==
  IF MapHas(floatingImagesBySheet[w.name], ref)
  THEN MapGet(floatingImagesBySheet[w.name], ref) ELSE <<>>

\* the image field parseCell gives the cell at ref of w's sheet
OwnImage(w, ref) ==
  LET cells == SheetOf(w.name).cells IN
  parseCell(IF ref \in DOMAIN cells THEN <<cells[ref]>> ELSE <<>>, ref, result.images).image

\* the cell at ref of w has no image of its own and at least one binding
Represents(w, ref) == OwnImage(w, ref) = <<>> /\ BoundTo(w, ref) # <<>>

\* C24: an emitted cell without a named-cell image and with floating bindings
\* carries the result.images entry of the first id bound to it, and the
\* row's imageCount and imageCells and the sheet's totalImages are what the
\* bindings and the resolved DISPIMG cells give without that attachment
C24_RepresentativeImage ==
  Done =>
    \A w \in Worksheets :
      /\ \A row \in RowsOf(w) :
           /\ \A cell \in CellsOfRow(row) :
                Represents(w, cell.ref) =>
                  /\ MapHas(result.images, BoundTo(w, cell.ref)[1])
                  /\ cell.image = <<MapGet(result.images, BoundTo(w, cell.ref)[1])>>
           /\ row.imageCount = CountOfRow(w, row.rowNumber)
           /\ Len(row.imageCells) = CountOfRow(w, row.rowNumber)
           /\ \A cell \in CellsOfRow(row) :
                Represents(w, cell.ref) =>
                  Cardinality({n \in 1..Len(row.imageCells) : row.imageCells[n] = cell.ref})
                    <= Cardinality(Range(BoundTo(w, cell.ref)))
      /\ w.totalImages = SumSeq([n \in 1..Cardinality(ScannedRowNumbers(w)) |->
                                   CountOfRow(w, ScanRangeOf(w).startRow + n)])

C24_Witness ==
  /\ Done
  /\ \E w \in Worksheets : \E row \in RowsOf(w) : \E cell \in CellsOfRow(row) :
       /\ Represents(w, cell.ref)
       /\ BoundTo(w, cell.ref) = <<"b", "a">>
       /\ cell.type = "string"
       /\ cell.image # <<>> /\ cell.image[1].id = "b"
       /\ row.imageCount = 2
       /\ w.totalImages >= 2

\* a defined cell of row number r of w's sheet has a non-empty value
RowHasValue(w, r) ==
  LET cells == SheetOf(w.name).cells IN
  \E ref \in DOMAIN cells : ref.row = r /\ cells[ref].v.txt # ""

C25_WitnessEmptyRows ==
  /\ Done
  /\ options.includeEmptyRows
  /\ \E w \in Worksheets : \E row \in RowsOf(w) :
       ~RowHasValue(w, row.rowNumber) /\ BoundIdsInRow(w, row.rowNumber) = {}

\* the number of the worksheet part of worksheet record w
FileOf(w) == CHOOSE n \in 1..Len(pkg.sheets) : pkg.sheets[n].name = w.name

\* the row numbers in which the drawing of w's sheet anchors a picture of
\* the given id whose media part can be extracted
AnchoredRows(w, id) ==
  LET infos == sheetFloatingImages(pkg, FileOf(w)).images IN
  {infos[n].info.cellRef.row :
     n \in {m \in 1..Len(infos) :
              /\ infos[m].info.id = id
              /\ infos[m].skip = ""
              /\ extractImageData(pkg, infos[m].mediaPath[1]) # <<>>}}

\* the ids the drawing of w's sheet anchors in row number r
AnchoredIds(w, r) == {id \in Ids : r \in AnchoredRows(w, id)}

\* the resolved DISPIMG cells of w's sheet
AllResolvedDispCells(w) == UNION {ResolvedDispCells(w, r) : r \in ScannedRowNumbers(w)}

\* C26: a floating id anchored in k different rows of a sheet is counted once
\* in each of these rows and k times in the sheet's totalImages, and
\* result.images holds one entry for it
C26_CountedOncePerRow ==
  (Done /\ options.includeImages /\ pkg.zipOk) =>
    \A w \in Worksheets :
      /\ \A row \in RowsOf(w) :
           row.imageCount = Cardinality(AnchoredIds(w, row.rowNumber))
                            + Cardinality(ResolvedDispCells(w, row.rowNumber))
      /\ \A id \in Ids :
           AnchoredRows(w, id) # {} =>
             Cardinality({n \in 1..Len(result.images) : result.images[n].k = id}) = 1
      /\ w.totalImages =
           SumSeq([n \in 1..Len(result.images) |->
                     Cardinality(AnchoredRows(w, result.images[n].k))])
           + Cardinality(AllResolvedDispCells(w))

C26_Witness ==
  /\ Done
  /\ \E w \in Worksheets :
       /\ AnchoredRows(w, "a") = {1, MaxRow + 1}
       /\ AnchoredRows(w, "b") = {MaxRow + 1}
       /\ AllResolvedDispCells(w) = {}
       /\ w.totalImages = 3
       /\ Len(w.rows) = 2
       /\ w.rows[1].imageCount = 1 /\ w.rows[2].imageCount = 2
       /\ Len(result.images) = 2

\* the extractable descriptors of the drawing of w's sheet anchored at ref,
\* in the drawing's order
UsableAnchorsAt(w, ref) ==
  LET infos == sheetFloatingImages(pkg, FileOf(w)).images IN
  FilterSeq(infos, {x \in Range(infos) :
                      /\ x.info.cellRef = ref
                      /\ x.skip = ""
                      /\ extractImageData(pkg, x.mediaPath[1]) # <<>>})

\* the image of the media part a descriptor reaches through its own
\* drawing relationship
ImageThrough(x) ==
  createCellImage(x.info.id, x.info.relationshipId,
                  extractImageData(pkg, x.mediaPath[1])[1])

\* C27: a cell whose image is the representative of a floating binding
\* carries the data URI, the MIME type and the relationship id of the media
\* part reached through the drawing relationship of the anchor that was bound
\* first to that cell, whatever other pictures or named images have its id
C27_RepresentativeIsOwnMedia ==
  (Done /\ options.includeImages /\ pkg.zipOk) =>
    \A w \in Worksheets : \A row \in RowsOf(w) : \A cell \in CellsOfRow(row) :
      (Represents(w, cell.ref) /\ UsableAnchorsAt(w, cell.ref) # <<>>) =>
        LET own == ImageThrough(UsableAnchorsAt(w, cell.ref)[1]) IN
        /\ cell.image # <<>>
        /\ cell.image[1].base64 = own.base64
        /\ cell.image[1].mimeType = own.mimeType
        /\ cell.image[1].relationshipId = own.relationshipId

\* C28: once parseFloatingImages has returned, every id in a cell list of the
\* binding table is a key of result.images and no cell list is empty
C28_BoundIdsAreRegistered ==
  pc \in {"finish", "done"} =>
    \A sheetName \in DOMAIN floatingImagesBySheet :
      \A n \in 1..Len(floatingImagesBySheet[sheetName]) :
        LET ids == floatingImagesBySheet[sheetName][n].v IN
        /\ ids # <<>>
        /\ \A m \in 1..Len(ids) : MapHas(result.images, ids[m])

C28_Witness ==
  /\ pc = "finish"
  /\ \E n \in 1..Len(floatingImagesBySheet["Sheet1"]) :
       floatingImagesBySheet["Sheet1"][n].v = <<"b", "a">>
  /\ MapKeys(result.images) = {"a", "b"}

\* C29: in every row of every worksheet imageCells has imageCount entries,
\* a cell being listed once for each image counted at it
C29_ImageCellsMatchCount ==
  \A w \in Worksheets : \A row \in RowsOf(w) :
    /\ Len(row.imageCells) = row.imageCount
    /\ \A ref \in Range(row.imageCells) : ref.row = row.rowNumber

C29_Witness ==
  /\ Done
  /\ \E w \in Worksheets : \E row \in RowsOf(w) :
       /\ row.imageCount = 2
       /\ row.imageCells = <<encode_cell(0, 0), encode_cell(0, 0)>>
       /\ BoundTo(w, encode_cell(0, 0)) = <<"b", "a">>

\* C30: a call with includeImages = false, on a fresh or on a used reader,
\* ends with an empty images map, no cell with an image, and imageCount,
\* totalImages and rowsWithImages all 0
C30_NoImagesWhenDisabled ==
  (Done /\ ~options.includeImages) =>
    /\ result.images = <<>>
    /\ \A w \in Worksheets :
         /\ w.totalImages = 0
         /\ w.rowsWithImages = 0
         /\ \A row \in RowsOf(w) :
              /\ row.imageCount = 0
              /\ row.imageCells = <<>>
              /\ \A cell \in CellsOfRow(row) : cell.image = <<>>

C30_Witness ==
  /\ Done /\ reused /\ ~options.includeImages
  /\ pkg \in ReusePackages
  /\ pkg.cellImages.items # <<>>
  /\ Len(result.worksheets) = 2
  /\ \E w \in Worksheets : \E row \in RowsOf(w) : \E cell \in CellsOfRow(row) :
       cell.type = "image"

C30_WitnessFresh ==
  /\ Done /\ ~reused /\ ~options.includeImages
  /\ pkg.cellImages.items # <<>>
  /\ \E w \in Worksheets :
       /\ SheetOf(w.name).drawing.anchors # <<>>
       /\ \E row \in RowsOf(w) : \E cell \in CellsOfRow(row) : cell.type = "image"

====
